---------------------------- MODULE Spec2Model ----------------------------
(***************************************************************************)
(* Recommendation and play-next engine of the streaming_video backend.     *)
(*                                                                         *)
(* The database tables are the state.  Every engine entry point is an      *)
(* operator that maps the current tables to the SET of values the call may *)
(* return: the set has more than one element only where the code leaves    *)
(* the order of equal scores to numpy's argsort, to pandas' sort_values or *)
(* to the iteration order of a Python set of strings.                      *)
(*                                                                         *)
(* Floats are fixed-point integers: similarities and scores are held in    *)
(* units of 1/Scale; ratings 1.0 .. 5.0 are the integers 1 .. 5.           *)
(* Item keys "movie_<id>" / "series_<id>" are the pairs <<"movie", id>> /  *)
(* <<"series", id>>; key.startswith and int(key.split("_")[1]) are the two *)
(* projections.                                                            *)
(***************************************************************************)
EXTENDS Integers, Sequences, FiniteSets, TLC

VARIABLES
    movies,                 \* table movies:   id -> [status, genres, text]
    series,                 \* table series:   id -> [status, text]
    seasons,                \* table seasons:  id -> [series_id, season_number]
    episodes,               \* table episodes: id -> [season_id, episode_number, status]
    watch_history,          \* table watch_history: <<user_id, movie_id>> -> watch_percentage
    movie_ratings,          \* table movie_ratings: <<user_id, movie_id>> -> rating
    episode_watch_history,  \* table episode_watch_history: <<user_id, episode_id>> -> watch_percentage
    series_ratings,         \* table series_ratings: <<user_id, series_id>> -> rating
    call,                   \* the request being answered: [op, ...arguments]
    result                  \* what the request returned

vars == <<movies, series, seasons, episodes, watch_history, movie_ratings,
          episode_watch_history, series_ratings, call, result>>

db == <<movies, series, seasons, episodes, watch_history, movie_ratings,
        episode_watch_history, series_ratings>>

-----------------------------------------------------------------------------
(* Bounds of the model *)

NumUsers == 2
NumMovies == 3
NumSeries == 2
MaxSeasonNumber == 2
MaxEpisodeNumber == 2
MaxTopN == 2
Scale == 100

Users == 1..NumUsers
MovieIds == 1..NumMovies
SeriesIds == 1..NumSeries

-----------------------------------------------------------------------------
(* Sequences and orders *)

Range(s) == {s[i] : i \in DOMAIN s}

Min(a, b) == IF a <= b THEN a ELSE b

Reverse(s) == [i \in 1..Len(s) |-> s[Len(s) + 1 - i]]

Take(s, n) == SubSeq(s, 1, Min(n, Len(s)))

RECURSIVE SumOver(_, _)
SumOver(S, f) ==
    IF S = {} THEN 0
    ELSE LET x == CHOOSE y \in S : TRUE IN f[x] + SumOver(S \ {x}, f)

\* floor(sqrt(x)) for 0 <= x <= Scale * Scale
ISqrt(x) == CHOOSE r \in 0..Scale : r * r <= x /\ (r + 1) * (r + 1) > x

\* Item keys compare as the strings they stand for ("movie_1" < "series_1";
\* ids are single digits here, so the string order is the numeric order).
KeyLess(a, b) ==
    \/ a[1] = "movie" /\ b[1] = "series"
    \/ a[1] = b[1] /\ a[2] < b[2]

RECURSIVE SortKeys(_)
SortKeys(S) ==
    IF S = {} THEN <<>>
    ELSE LET k == CHOOSE x \in S : \A y \in S \ {x} : KeyLess(x, y)
         IN <<k>> \o SortKeys(S \ {k})

\* Every order of the elements of S that is ascending in val: what a sort
\* that is not stable may return.
RECURSIVE AscendingOrders(_, _)
AscendingOrders(S, val) ==
    IF S = {} THEN {<<>>}
    ELSE LET Lowest == {x \in S : \A y \in S : val[x] <= val[y]}
         IN UNION {{<<x>> \o rest : rest \in AscendingOrders(S \ {x}, val)} : x \in Lowest}

\* numpy.argsort (default kind 'quicksort', not stable): the index orders it
\* may return for the values vals[1..n].
Argsort(vals) == AscendingOrders(DOMAIN vals, vals)

\* sorted(items, key=score, reverse=True): stable, so equal scores keep the
\* order they have in the sequence items.
RECURSIVE SortedDesc(_, _)
SortedDesc(items, score) ==
    IF items = <<>> THEN <<>>
    ELSE LET i == CHOOSE j \in DOMAIN items :
                    /\ \A k \in DOMAIN items : score[items[k]] <= score[items[j]]
                    /\ \A k \in 1..(j - 1) : score[items[k]] < score[items[j]]
             rest == [k \in 1..(Len(items) - 1) |-> IF k < i THEN items[k] ELSE items[k + 1]]
         IN <<items[i]>> \o SortedDesc(rest, score)


-----------------------------------------------------------------------------
(* 4.2 / 4.4  Content featurizer and content engine (UnifiedContentFilter) *)

\* sklearn's stop_words="english" removes these tokens before counting.
StopWords == {"the"}

Key(type, id) == <<type, id>>
IsMovieKey(key) == key[1] = "movie"       \* key.startswith("movie_")
IsSeriesKey(key) == key[1] = "series"     \* key.startswith("series_")
KeyId(key) == key[2]                      \* int(key.split("_")[1])

\* Token counts of f"{genres} {genres} {description} {director} {cast}":
\* every genre name is written twice, every other token once.
MovieText(row) ==
    [t \in row.genres \cup row.text |->
        (IF t \in row.genres THEN 2 ELSE 0) + (IF t \in row.text THEN 1 ELSE 0)]

\* Token counts of f"{description} {director} {cast}".
SeriesText(row) == [t \in row.text |-> 1]

RECURSIVE IdSeq(_)
IdSeq(S) ==
    IF S = {} THEN <<>>
    ELSE LET x == CHOOSE y \in S : \A z \in S : y <= z IN <<x>> \o IdSeq(S \ {x})

MovieItems(ms) == [i \in DOMAIN ms |-> [id |-> Key("movie", ms[i]), text |-> MovieText(movies[ms[i]])]]
SeriesItems(ss) == [i \in DOMAIN ss |-> [id |-> Key("series", ss[i]), text |-> SeriesText(series[ss[i]])]]

\* The items list of build(): ready movies, then active series, in id order.
ContentItems ==
    MovieItems(IdSeq({m \in DOMAIN movies : movies[m].status = "ready"}))
    \o SeriesItems(IdSeq({x \in DOMAIN series : series[x].status = "active"}))

\* The vocabulary TfidfVectorizer fits: the tokens of the corpus that are
\* not stop words (the max_features cap of 200 is never reached here).
Vocabulary(items) == UNION {DOMAIN items[i].text : i \in DOMAIN items} \ StopWords

\* One row of the term matrix: the count of every vocabulary term (the idf
\* factor, which rescales a column by a positive number, and the bigram
\* columns are not modelled).
TfidfRow(text, vocab) == [t \in vocab |-> IF t \in DOMAIN text THEN text[t] ELSE 0]

\* The fields build() leaves in the filter.  fit_transform raises
\* ValueError("empty vocabulary") when no document holds a token that is not
\* a stop word: raises.
Fit(items, vocab) ==
    [raises |-> items # <<>> /\ vocab = {},
     item_ids |-> [i \in DOMAIN items |-> items[i].id],
     tfidf_matrix |-> [i \in DOMAIN items |-> TfidfRow(items[i].text, vocab)]]

FitItems(items) == Fit(items, Vocabulary(items))

\* UnifiedContentFilter.build
ContentBuild == FitItems(ContentItems)

Dot(a, b) == SumOver(DOMAIN a, [t \in DOMAIN a |-> a[t] * b[t]])

Cosine(ab, na, nb) ==
    IF na = 0 \/ nb = 0 THEN 0
    ELSE ISqrt((Scale * Scale * ab * ab) \div (na * nb))

\* sklearn cosine_similarity of two rows, in units of 1/Scale; a zero row is
\* left as it is by the normalisation, so its similarity to anything is 0.
CosineSimilarity(a, b) == Cosine(Dot(a, b), Dot(a, a), Dot(b, b))

IndexOf(seq, x) == CHOOSE i \in DOMAIN seq : seq[i] = x /\ \A j \in 1..(i - 1) : seq[j] # x

\* [::-1][1:top_n + 1] of an index order
DropFirstTake(order, top_n) == SubSeq(Reverse(order), 2, Min(Len(order), top_n + 1))

\* [(ids[i], float(vals[i])) for i in indices]
Scored(ids, vals, indices) ==
    [k \in DOMAIN indices |-> [key |-> ids[indices[k]], score |-> vals[indices[k]]]]

RankSimilar(ids, sims, top_n) ==
    {Scored(ids, sims, DropFirstTake(order, top_n)) : order \in Argsort(sims)}

\* UnifiedContentFilter.get_similar on a built filter: the lists it may return.
GetSimilar(space, item_key, top_n) ==
    IF item_key \notin Range(space.item_ids) THEN {<<>>}
    ELSE RankSimilar(space.item_ids,
                     [i \in DOMAIN space.item_ids |->
                        CosineSimilarity(space.tfidf_matrix[IndexOf(space.item_ids, item_key)],
                                         space.tfidf_matrix[i])],
                     top_n)

\* cosine_similarity(watched_matrix, tfidf_matrix).mean(axis=0)
AvgSim(space, valid) ==
    [i \in DOMAIN space.item_ids |->
        SumOver(DOMAIN valid, [j \in DOMAIN valid |->
            CosineSimilarity(space.tfidf_matrix[IndexOf(space.item_ids, valid[j])],
                             space.tfidf_matrix[i])])
        \div Len(valid)]

\* sorted(scores.items(), key=score, reverse=True)[:top_n]
RankDesc(cand, score, top_n) ==
    Take([i \in DOMAIN cand |-> [key |-> cand[i], score |-> score[cand[i]]]], top_n)

ScoreHistory(space, avg_sim, cand, top_n) ==
    RankDesc(SortedDesc(cand, [k \in Range(cand) |-> avg_sim[IndexOf(space.item_ids, k)]]),
             [k \in Range(cand) |-> avg_sim[IndexOf(space.item_ids, k)]], top_n)

\* UnifiedContentFilter.recommend_for_history on a built filter: mean
\* similarity to the watched items that are in the vector space, over the
\* items that are not in watched_keys.
RecommendForHistory(space, watched_keys, top_n) ==
    IF \/ watched_keys = <<>>
       \/ space.item_ids = <<>>
       \/ \A i \in DOMAIN watched_keys : watched_keys[i] \notin Range(space.item_ids)
    THEN <<>>
    ELSE ScoreHistory(space,
                      AvgSim(space, SelectSeq(watched_keys, LAMBDA k : k \in Range(space.item_ids))),
                      SelectSeq(space.item_ids, LAMBDA k : k \notin Range(watched_keys)),
                      top_n)

\* ContentBasedFilter.build_feature_matrix (the movies-only filter behind
\* /recommendations/similar): the same text and vectorizer over the ready
\* movies; movie_ids holds the ids, here as movie keys.
BuildFeatureMatrix == FitItems(MovieItems(IdSeq({m \in DOMAIN movies : movies[m].status = "ready"})))

MovieScores(similar) ==
    [i \in DOMAIN similar |-> [movie_id |-> KeyId(similar[i].key), score |-> similar[i].score]]

\* ContentBasedFilter.get_similar_movies on a built filter: the same
\* argsort()[::-1][1:top_n + 1] as get_similar.
GetSimilarMovies(space, movie_id, top_n) ==
    {MovieScores(similar) : similar \in GetSimilar(space, Key("movie", movie_id), top_n)}

-----------------------------------------------------------------------------
(* 4.1 / 4.3  Interaction aggregator and collaborative engine              *)
(*            (UnifiedCollaborativeFilter)                                 *)

NeighborCount == 20

\* _implicit_rating of the percentage num / den (den = 1 for a movie; for a
\* series num / den is sum(pcts) / len(pcts)).
ImplicitRating(num, den) ==
    IF num >= 90 * den THEN 5
    ELSE IF num >= 75 * den THEN 4
    ELSE IF num >= 50 * den THEN 3
    ELSE IF num >= 25 * den THEN 2
    ELSE 1

\* A set of <<user, id>> pairs as a sequence (the order of the rows of one
\* query; the pairs of one table are distinct, so it decides nothing).
RECURSIVE PairSeq(_)
PairSeq(S) ==
    IF S = {} THEN <<>>
    ELSE LET x == CHOOSE y \in S : \A z \in S : y[1] < z[1] \/ (y[1] = z[1] /\ y[2] <= z[2])
         IN <<x>> \o PairSeq(S \ {x})

\* ep_to_series: the series of an episode whose season row exists.
EpToSeries ==
    [e \in {x \in DOMAIN episodes : episodes[x].season_id \in DOMAIN seasons} |->
        seasons[episodes[e].season_id].series_id]

\* The series aggregate from the highest watch percentage of the episodes
\* instead of their mean.
SeriesImplicitOfMax(eps, u) ==
    LET top == CHOOSE e \in eps : \A f \in eps :
                   episode_watch_history[<<u, f>>] <= episode_watch_history[<<u, e>>]
    IN ImplicitRating(episode_watch_history[<<u, top>>], 1)

\* user_series_pct: the rating of (user, series) from the watch percentages
\* of the episodes of that series the user has a record for.
SeriesImplicit(eps, u) ==
    ImplicitRating(SumOver(eps, [e \in eps |-> episode_watch_history[<<u, e>>]]), Cardinality(eps))

SeriesRows(ep_to_series, us) ==
    [i \in DOMAIN us |->
        [user_id |-> us[i][1], item_id |-> Key("series", us[i][2]),
         rating |-> SeriesImplicit({e \in DOMAIN ep_to_series :
                                      /\ ep_to_series[e] = us[i][2]
                                      /\ <<us[i][1], e>> \in DOMAIN episode_watch_history},
                                   us[i][1])]]

UserSeriesPairs(ep_to_series) ==
    {<<p[1], ep_to_series[p[2]]>> :
        p \in {q \in DOMAIN episode_watch_history : q[2] \in DOMAIN ep_to_series}}

SeriesImplicitRows(ep_to_series) == SeriesRows(ep_to_series, PairSeq(UserSeriesPairs(ep_to_series)))

MovieImplicitRows(wh) ==
    [i \in DOMAIN wh |-> [user_id |-> wh[i][1], item_id |-> Key("movie", wh[i][2]),
                          rating |-> ImplicitRating(watch_history[wh[i]], 1)]]

MovieRatingRows(mr) ==
    [i \in DOMAIN mr |-> [user_id |-> mr[i][1], item_id |-> Key("movie", mr[i][2]),
                          rating |-> movie_ratings[mr[i]]]]

SeriesRatingRows(sr) ==
    [i \in DOMAIN sr |-> [user_id |-> sr[i][1], item_id |-> Key("series", sr[i][2]),
                          rating |-> series_ratings[sr[i]]]]

\* The rows list of build(), in the order it is appended to.
InteractionRows ==
    MovieImplicitRows(PairSeq(DOMAIN watch_history))
    \o MovieRatingRows(PairSeq(DOMAIN movie_ratings))
    \o SeriesImplicitRows(EpToSeries)
    \o SeriesRatingRows(PairSeq(DOMAIN series_ratings))

\* df.drop_duplicates(subset=["user_id", "item_id"], keep="last"): the
\* positions of the rows that stay.
DropDuplicates(rows) ==
    {i \in DOMAIN rows : \A j \in (i + 1)..Len(rows) :
        ~(rows[j].user_id = rows[i].user_id /\ rows[j].item_id = rows[i].item_id)}

\* df.pivot_table(index="user_id", columns="item_id", values="rating",
\* fill_value=0): index and columns sorted, an absent pair 0.
PivotTable(rows, kept) ==
    [empty |-> rows = <<>>,
     index |-> IdSeq({rows[i].user_id : i \in kept}),
     columns |-> SortKeys({rows[i].item_id : i \in kept}),
     cell |-> [u \in {rows[i].user_id : i \in kept}, k \in {rows[i].item_id : i \in kept} |->
                 IF \E i \in kept : rows[i].user_id = u /\ rows[i].item_id = k
                 THEN rows[CHOOSE i \in kept : rows[i].user_id = u /\ rows[i].item_id = k].rating
                 ELSE 0]]

BuildMatrix(rows) == PivotTable(rows, DropDuplicates(rows))

\* UnifiedCollaborativeFilter.build; empty is "self.matrix is None".
Matrix == BuildMatrix(InteractionRows)

\* popularity.head(top_n) of one descending order
PopularHead(cols, popularity, order, top_n) ==
    Scored(cols, [j \in DOMAIN cols |-> Scale * popularity[j]], Take(Reverse(order), top_n))

PopularRank(cols, popularity, top_n) ==
    {PopularHead(cols, popularity, order, top_n) : order \in Argsort(popularity)}

\* UnifiedCollaborativeFilter._popular: items by the number of users with a
\* nonzero cell, descending (pandas sort_values, default kind 'quicksort');
\* the score is that count.
Popular(M, top_n) ==
    IF M.empty THEN {<<>>}
    ELSE PopularRank(M.columns,
                     [j \in DOMAIN M.columns |->
                        Cardinality({u \in Range(M.index) : M.cell[u, M.columns[j]] > 0})],
                     top_n)

\* similar_ratings.T.dot(sim_weights) / sim_weights.sum(), per column
Predicted(M, similar_indices, user_sims, wsum) ==
    [k \in Range(M.columns) |->
        (Scale * SumOver(DOMAIN similar_indices,
            [n \in DOMAIN similar_indices |->
                M.cell[M.index[similar_indices[n]], k] * user_sims[similar_indices[n]]]))
        \div wsum]

\* The scores dict without the items already watched, sorted, cut to top_n.
RankPredicted(M, user_id, predicted, top_n) ==
    RankDesc(SortedDesc(SelectSeq(M.columns, LAMBDA k : M.cell[user_id, k] = 0), predicted),
             predicted, top_n)

SimWeightSum(similar_indices, user_sims) ==
    SumOver(DOMAIN similar_indices, [n \in DOMAIN similar_indices |-> user_sims[similar_indices[n]]])

\* recommend() from similar_indices on
PredictFrom(M, user_id, similar_indices, user_sims, wsum, top_n) ==
    IF wsum = 0 THEN Popular(M, top_n)
    ELSE {RankPredicted(M, user_id, Predicted(M, similar_indices, user_sims, wsum), top_n)}

PredictWith(M, user_id, similar_indices, user_sims, top_n) ==
    PredictFrom(M, user_id, similar_indices, user_sims, SimWeightSum(similar_indices, user_sims), top_n)

\* recommend() from user_sims on: one result per order argsort may return
WarmRecommend(M, user_id, user_sims, top_n) ==
    UNION {PredictWith(M, user_id, DropFirstTake(order, NeighborCount), user_sims, top_n)
           : order \in Argsort(user_sims)}

MatrixRow(M, u) == [k \in Range(M.columns) |-> M.cell[u, k]]

\* The similarities with the user's own entry lifted above every other.
UserSimsSelfAbove(M, user_id) ==
    [i \in DOMAIN M.index |->
        IF M.index[i] = user_id THEN Scale + 1
        ELSE CosineSimilarity(MatrixRow(M, user_id), MatrixRow(M, M.index[i]))]

\* cosine_similarity(self.matrix)[user_idx]
UserSims(M, user_id) ==
    [i \in DOMAIN M.index |-> CosineSimilarity(MatrixRow(M, user_id), MatrixRow(M, M.index[i]))]

\* UnifiedCollaborativeFilter.recommend on a built matrix: the lists it may return.
CollabRecommend(M, user_id, top_n) ==
    IF M.empty THEN {<<>>}
    ELSE IF user_id \notin Range(M.index) THEN Popular(M, top_n)
    ELSE WarmRecommend(M, user_id, UserSims(M, user_id), top_n)

\* calculate_implicit_rating of CollaborativeFilter: the same steps.
CalculateImplicitRating(percentage) == ImplicitRating(percentage, 1)

\* df.merge(ratings_df, how='left') and rating.fillna(implicit_rating): one
\* row per watch record, with the explicit rating of the pair if it has one.
FinalRating(pair) ==
    IF pair \in DOMAIN movie_ratings THEN movie_ratings[pair]
    ELSE CalculateImplicitRating(watch_history[pair])

\* The pivot table of CollaborativeFilter over the watch records.
WatchPivot(pairs) ==
    [empty |-> pairs = {},
     index |-> IdSeq({p[1] : p \in pairs}),
     columns |-> IdSeq({p[2] : p \in pairs}),
     cell |-> [u \in {p[1] : p \in pairs}, m \in {p[2] : p \in pairs} |->
                 IF <<u, m>> \in pairs THEN FinalRating(<<u, m>>) ELSE 0]]

\* CollaborativeFilter.build_user_item_matrix (the movies-only matrix of the
\* for-you recommendations): an empty frame when nobody has watched anything.
BuildUserItemMatrix == WatchPivot(DOMAIN watch_history)

-----------------------------------------------------------------------------
(* 4.5  Hybrid blender (UnifiedHybridRecommender)                          *)

\* COLLAB_WEIGHT = 0.7 and CONTENT_WEIGHT = 0.3, in tenths: a blended score
\* is held in units of 1/(10 * Scale).
COLLAB_WEIGHT == 7
CONTENT_WEIGHT == 3
ColdStartThreshold == 5

COLD_REASON == "Based on what you've watched"
HYBRID_REASON == "Recommended for you"

\* Every order of S that is descending in val; equal values in any order
\* (the order a dict built from a Python set of strings is iterated in).
DescendingOrders(S, val) == {Reverse(o) : o \in AscendingOrders(S, val)}

\* _get_watched_keys: the user's watched movies, then the series of the
\* episodes the user has a record for.
GetWatchedKeys(user_id) ==
    SortKeys({Key("movie", p[2]) : p \in {q \in DOMAIN watch_history : q[1] = user_id}})
    \o SortKeys({Key("series", seasons[episodes[p[2]].season_id].series_id) :
                    p \in {q \in DOMAIN episode_watch_history :
                             /\ q[1] = user_id
                             /\ q[2] \in DOMAIN episodes
                             /\ episodes[q[2]].season_id \in DOMAIN seasons}})

\* The count with the user's explicit ratings added.
TotalWatchAndRatings(user_id) ==
    Cardinality({p \in DOMAIN watch_history : p[1] = user_id})
    + Cardinality({p \in DOMAIN episode_watch_history : p[1] = user_id})
    + Cardinality({p \in DOMAIN movie_ratings : p[1] = user_id})
    + Cardinality({p \in DOMAIN series_ratings : p[1] = user_id})

\* watch_count + ep_count
TotalWatch(user_id) ==
    Cardinality({p \in DOMAIN watch_history : p[1] = user_id})
    + Cardinality({p \in DOMAIN episode_watch_history : p[1] = user_id})

\* dict(recs).get(key, 0)
ScoreOf(recs, key) ==
    IF \E i \in DOMAIN recs : recs[i].key = key
    THEN recs[CHOOSE i \in DOMAIN recs : recs[i].key = key].score
    ELSE 0

RecKeys(recs) == {recs[i].key : i \in DOMAIN recs}

MovieEntries(keep, score, reason) ==
    [i \in DOMAIN keep |->
        [movie_id |-> KeyId(keep[i]), recommendation_score |-> score[keep[i]],
         reason |-> reason, type |-> "movie"]]

SeriesEntries(keep, score, reason) ==
    [i \in DOMAIN keep |->
        [series_id |-> KeyId(keep[i]), recommendation_score |-> score[keep[i]],
         reason |-> reason, type |-> "series"]]

\* MoviesOut without the test of the key's namespace.
MoviesOutAnyKey(sorted_items, score, reason, top_n) ==
    Take(MovieEntries(SelectSeq(sorted_items, LAMBDA k :
                         /\ KeyId(k) \in DOMAIN movies
                         /\ movies[KeyId(k)].status = "ready"),
                      score, reason), top_n)

\* The loop of recommend() over sorted_items: the entries of one namespace
\* whose catalog row still has the serving status, cut to top_n.
MoviesOut(sorted_items, score, reason, top_n) ==
    Take(MovieEntries(SelectSeq(sorted_items, LAMBDA k :
                         /\ IsMovieKey(k)
                         /\ KeyId(k) \in DOMAIN movies
                         /\ movies[KeyId(k)].status = "ready"),
                      score, reason), top_n)

\* SeriesOut without the test of the series' status.
SeriesOutAnyStatus(sorted_items, score, reason, top_n) ==
    Take(SeriesEntries(SelectSeq(sorted_items, LAMBDA k :
                          /\ IsSeriesKey(k)
                          /\ KeyId(k) \in DOMAIN series),
                       score, reason), top_n)

SeriesOut(sorted_items, score, reason, top_n) ==
    Take(SeriesEntries(SelectSeq(sorted_items, LAMBDA k :
                          /\ IsSeriesKey(k)
                          /\ KeyId(k) \in DOMAIN series
                          /\ series[KeyId(k)].status = "active"),
                       score, reason), top_n)

\* return {"movies": movies_out[:top_n], "series": series_out[:top_n]}
Partition(sorted_items, score, reason, top_n) ==
    [raised |-> FALSE,
     movies |-> MoviesOut(sorted_items, score, reason, top_n),
     series |-> SeriesOut(sorted_items, score, reason, top_n)]

\* combined of the content-only path: {k: v * CONTENT_WEIGHT}
ColdCombined(content_recs) ==
    [k \in RecKeys(content_recs) |-> ScoreOf(content_recs, k) * CONTENT_WEIGHT]

\* The content-only path from content_recs on (sorted() is stable and the
\* dict keeps the order of content_recs).
ColdPath(content_recs, top_n) ==
    Partition(SortedDesc([i \in DOMAIN content_recs |-> content_recs[i].key], ColdCombined(content_recs)),
              ColdCombined(content_recs), COLD_REASON, top_n)

\* combined over the collaborative engine's keys alone.
HybridCombinedCollabKeys(collab_recs, content_recs) ==
    [k \in RecKeys(collab_recs) |->
        ScoreOf(collab_recs, k) * COLLAB_WEIGHT + ScoreOf(content_recs, k) * CONTENT_WEIGHT]

\* combined of the hybrid path
HybridCombined(collab_recs, content_recs) ==
    [k \in RecKeys(collab_recs) \cup RecKeys(content_recs) |->
        ScoreOf(collab_recs, k) * COLLAB_WEIGHT + ScoreOf(content_recs, k) * CONTENT_WEIGHT]

HybridRank(combined, top_n) ==
    {Partition(sorted_items, combined, HYBRID_REASON, top_n)
     : sorted_items \in DescendingOrders(DOMAIN combined, combined)}

\* The hybrid path from the two engines' results on.
HybridPath(collab_results, content_recs, top_n) ==
    UNION {HybridRank(HybridCombined(collab_recs, content_recs), top_n)
           : collab_recs \in collab_results}

\* recommend() with the two engines built: the content build is reached on
\* both paths, so its ValueError is raised on both.
Blend(space, M, user_id, watched_keys, total_watch, top_n) ==
    IF space.raises THEN {[raised |-> TRUE, movies |-> <<>>, series |-> <<>>]}
    ELSE IF total_watch < ColdStartThreshold
    THEN {ColdPath(RecommendForHistory(space, watched_keys, top_n * 2), top_n)}
    ELSE HybridPath(CollabRecommend(M, user_id, top_n * 2),
                    RecommendForHistory(space, watched_keys, top_n * 2), top_n)

\* UnifiedHybridRecommender.recommend: the values it may return.
Recommend(user_id, top_n) ==
    Blend(ContentBuild, Matrix, user_id, GetWatchedKeys(user_id), TotalWatch(user_id), top_n)

-----------------------------------------------------------------------------
(* 4.6  Play-next resolver (PlayNextService)                               *)

SimilarTopN == 5
MlSeriesTopN == 3
SimilarSeriesCap == 5
MovieRecsTopN == 5

\* An unhandled exception of the handler (the ValueError of the content
\* build): the request fails with a server error.
Raised == [type |-> "error", reason |-> "ValueError"]

\* The dict returned for a next episode (title, urls and the like left out).
EpisodeResult(e, season_number) ==
    [type |-> "episode", episode_id |-> e, episode_number |-> episodes[e].episode_number,
     season_number |-> season_number]

SeriesItemsOf(keep) ==
    [i \in DOMAIN keep |-> [series_id |-> KeyId(keep[i].key), score |-> keep[i].score]]

\* The content part of _similar_series: the series keys of get_similar whose
\* row is still active.
SimilarSeriesContent(similar_keys) ==
    SeriesItemsOf(SelectSeq(similar_keys, LAMBDA r :
                    /\ IsSeriesKey(r.key)
                    /\ KeyId(r.key) \in DOMAIN series
                    /\ series[KeyId(r.key)].status = "active"))

\* The loop over recs["series"]: append what is neither the finished series
\* nor already listed.
RECURSIVE AppendMlSeries(_, _, _)
AppendMlSeries(results, recs, series_id) ==
    IF recs = <<>> THEN results
    ELSE AppendMlSeries(
           IF /\ Head(recs).series_id # series_id
              /\ ~\E i \in DOMAIN results : results[i].series_id = Head(recs).series_id
           THEN Append(results, [series_id |-> Head(recs).series_id,
                                 score |-> Head(recs).recommendation_score])
           ELSE results,
           Tail(recs), series_id)

\* results[:5] of one content result and one recommender result
MergeSimilar(similar_keys, recs, series_id) ==
    [raised |-> FALSE,
     items |-> Take(AppendMlSeries(SimilarSeriesContent(similar_keys), recs.series, series_id),
                    SimilarSeriesCap)]

SimilarSeriesFrom(similar_results, rec_results, series_id) ==
    {MergeSimilar(sr[1], sr[2], series_id) : sr \in similar_results \X rec_results}

\* _similar_series failing for a profile with no watched item.
SimilarSeriesNeedsHistory(space, series_id, user_id) ==
    IF space.raises \/ GetWatchedKeys(user_id) = <<>>
    THEN {[raised |-> TRUE, items |-> <<>>]}
    ELSE SimilarSeriesFrom(GetSimilar(space, Key("series", series_id), SimilarTopN),
                           Recommend(user_id, MlSeriesTopN), series_id)

\* PlayNextService._similar_series: the lists it may return (raised: the
\* content build failed).
SimilarSeries(space, series_id, user_id) ==
    IF space.raises THEN {[raised |-> TRUE, items |-> <<>>]}
    ELSE SimilarSeriesFrom(GetSimilar(space, Key("series", series_id), SimilarTopN),
                           Recommend(user_id, MlSeriesTopN), series_id)

\* The next-episode query with the "+ 1" of the episode number lost.
NextEpsSameNumber(episode_id) ==
    {e \in DOMAIN episodes :
        /\ episodes[e].season_id = episodes[episode_id].season_id
        /\ episodes[e].episode_number = episodes[episode_id].episode_number
        /\ episodes[e].status = "ready"}

\* The query for the next episode of the same season (.first() of it).
NextEps(episode_id) ==
    {e \in DOMAIN episodes :
        /\ episodes[e].season_id = episodes[episode_id].season_id
        /\ episodes[e].episode_number = episodes[episode_id].episode_number + 1
        /\ episodes[e].status = "ready"}

\* The query for the next season of the same series (.first() of it).
NextSeasons(season_id) ==
    {s \in DOMAIN seasons :
        /\ seasons[s].series_id = seasons[season_id].series_id
        /\ seasons[s].season_number = seasons[season_id].season_number + 1}

\* The episodes of a season whatever their status.
SeasonEps(season_id) ==
    {e \in DOMAIN episodes : episodes[e].season_id = season_id}

ReadyEps(season_id) ==
    {e \in DOMAIN episodes : episodes[e].season_id = season_id /\ episodes[e].status = "ready"}

LowestNumbered(eps) ==
    {e \in eps : \A x \in eps : episodes[e].episode_number <= episodes[x].episode_number}

\* The query for first_ep: the ready episodes of the season, ordered by
\* episode_number, .first() of it.
FirstEps(season_id) == LowestNumbered(ReadyEps(season_id))

SeriesRecommendation(similar) ==
    {IF r.raised THEN Raised ELSE [type |-> "series_recommendation", items |-> r.items]
     : r \in similar}

\* next_for_episode once the finished episode has no next episode: one
\* outcome per row .first() may return for next_season.
Rollover(next_seasons, similar) ==
    IF next_seasons = {} THEN SeriesRecommendation(similar)
    ELSE UNION {IF FirstEps(s) # {}
                THEN {EpisodeResult(e, seasons[s].season_number) : e \in FirstEps(s)}
                ELSE SeriesRecommendation(similar)
                : s \in next_seasons}

\* next_for_episode once the episode and its season are found.
ResolveEpisode(next_eps, season_id, similar) ==
    IF next_eps # {}
    THEN {EpisodeResult(e, seasons[season_id].season_number) : e \in next_eps}
    ELSE Rollover(NextSeasons(season_id), similar)

\* PlayNextService.next_for_episode: the values it may return.  A query's
\* .first() with no order given may return any row that matches.
NextForEpisode(episode_id, user_id) ==
    IF episode_id \notin DOMAIN episodes
    THEN {[type |-> "none", reason |-> "Episode not found"]}
    ELSE IF episodes[episode_id].season_id \notin DOMAIN seasons
    THEN {[type |-> "none", reason |-> "Season not found"]}
    ELSE ResolveEpisode(NextEps(episode_id), episodes[episode_id].season_id,
                        SimilarSeries(ContentBuild,
                                      seasons[episodes[episode_id].season_id].series_id, user_id))

ReadyMovieKeys(similar) ==
    SelectSeq(similar, LAMBDA r :
        /\ IsMovieKey(r.key)
        /\ KeyId(r.key) \in DOMAIN movies
        /\ movies[KeyId(r.key)].status = "ready")

FirstOr(keep) ==
    IF keep = <<>> THEN [type |-> "none", reason |-> "No recommendations available"]
    ELSE [type |-> "movie", movie_id |-> KeyId(keep[1].key), reason |-> "You might also like"]

\* The fallback loop of next_for_movie over get_similar: the first movie key
\* whose row is ready.
FirstReadyMovie(similar) == FirstOr(ReadyMovieKeys(similar))

\* next_for_movie with the two recommender branches in the other order.
ResolveMovieSeriesFirst(recs, similar_results) ==
    IF recs.raised THEN {Raised}
    ELSE IF recs.series # <<>>
    THEN {[type |-> "series", series_id |-> recs.series[1].series_id, reason |-> recs.series[1].reason]}
    ELSE IF recs.movies # <<>>
    THEN {[type |-> "movie", movie_id |-> recs.movies[1].movie_id, reason |-> recs.movies[1].reason]}
    ELSE {FirstReadyMovie(similar) : similar \in similar_results}

\* next_for_movie for one result of the recommender.
ResolveMovie(recs, similar_results) ==
    IF recs.raised THEN {Raised}
    ELSE IF recs.movies # <<>>
    THEN {[type |-> "movie", movie_id |-> recs.movies[1].movie_id, reason |-> recs.movies[1].reason]}
    ELSE IF recs.series # <<>>
    THEN {[type |-> "series", series_id |-> recs.series[1].series_id, reason |-> recs.series[1].reason]}
    ELSE {FirstReadyMovie(similar) : similar \in similar_results}

NextForMovieFrom(rec_results, similar_results) ==
    UNION {ResolveMovie(recs, similar_results) : recs \in rec_results}

\* PlayNextService.next_for_movie: the values it may return.
NextForMovie(movie_id, user_id) ==
    NextForMovieFrom(Recommend(user_id, MovieRecsTopN),
                     GetSimilar(ContentBuild, Key("movie", movie_id), SimilarTopN))

-----------------------------------------------------------------------------
(* Data snapshots                                                          *)

EpisodeStatus == {"pending", "ready"}

\* Primary keys of the seasons and episodes tables.
SeasonId(series_id, season_number) == (series_id - 1) * MaxSeasonNumber + season_number
EpisodeId(season_id, episode_number) == (season_id - 1) * MaxEpisodeNumber + episode_number

\* The seasons and episodes tables of a series graph: graph[s] is the set
\* of season numbers of series s, rows[<<s, n, k>>] the status of episode k of
\* season n of series s or "absent".  create_season and create_episode
\* refuse a second row with the same number, and no update changes a number.
SeasonsOf(graph) ==
    LET present == {x \in (DOMAIN graph) \X (1..MaxSeasonNumber) : x[2] \in graph[x[1]]}
    IN [i \in {SeasonId(x[1], x[2]) : x \in present} |->
          LET x == CHOOSE y \in present : SeasonId(y[1], y[2]) = i
          IN [series_id |-> x[1], season_number |-> x[2]]]

EpisodesOf(rows) ==
    LET present == {x \in DOMAIN rows : rows[x] # "absent"}
    IN [i \in {EpisodeId(SeasonId(x[1], x[2]), x[3]) : x \in present} |->
          LET x == CHOOSE y \in present : EpisodeId(SeasonId(y[1], y[2]), y[3]) = i
          IN [season_id |-> SeasonId(x[1], x[2]), episode_number |-> x[3], status |-> rows[x]]]

NoRows == [p \in {} |-> 0]

Idle ==
    /\ call = [op |-> "none"]
    /\ result = [type |-> "none", reason |-> "no request yet"]

-----------------------------------------------------------------------------
(* Requests                                                                *)

\* GET /play-next/episode/{episode_id}
PlayNextAfterEpisode ==
    \E episode_id \in DOMAIN episodes \cup {0}, user_id \in Users :
        \E r \in NextForEpisode(episode_id, user_id) :
            /\ call' = [op |-> "next_for_episode", episode_id |-> episode_id, user_id |-> user_id]
            /\ result' = r
            /\ UNCHANGED db

\* GET /play-next/movie/{movie_id}
PlayNextAfterMovie ==
    \E movie_id \in DOMAIN movies \cup {0}, user_id \in Users :
        \E r \in NextForMovie(movie_id, user_id) :
            /\ call' = [op |-> "next_for_movie", movie_id |-> movie_id, user_id |-> user_id]
            /\ result' = r
            /\ UNCHANGED db

\* UnifiedContentFilter.get_similar on a filter built for the call.
SimilarItemsOf(space, item_key, top_n) ==
    IF space.raises THEN {Raised}
    ELSE {[type |-> "similar", items |-> similar] : similar \in GetSimilar(space, item_key, top_n)}

SimilarItems ==
    \E item_key \in {Key("movie", m) : m \in DOMAIN movies \cup {0}}
                    \cup {Key("series", x) : x \in DOMAIN series},
       top_n \in 1..MaxTopN :
        \E r \in SimilarItemsOf(ContentBuild, item_key, top_n) :
            /\ call' = [op |-> "get_similar", item_key |-> item_key, top_n |-> top_n]
            /\ result' = r
            /\ UNCHANGED db

\* ContentBasedFilter.get_similar_movies on a filter built for the call.
SimilarMoviesOf(space, movie_id, top_n) ==
    IF space.raises THEN {Raised}
    ELSE {[type |-> "similar_movies", items |-> similar]
          : similar \in GetSimilarMovies(space, movie_id, top_n)}

SimilarMovies ==
    \E movie_id \in DOMAIN movies \cup {0}, top_n \in 1..MaxTopN :
        \E r \in SimilarMoviesOf(BuildFeatureMatrix, movie_id, top_n) :
            /\ call' = [op |-> "get_similar_movies", movie_id |-> movie_id, top_n |-> top_n]
            /\ result' = r
            /\ UNCHANGED db

\* UnifiedCollaborativeFilter.build, then the matrix it holds.
Build ==
    /\ call' = [op |-> "build"]
    /\ result' = [type |-> "matrix", matrix |-> Matrix]
    /\ UNCHANGED db

\* CollaborativeFilter.build_user_item_matrix
BuildLegacy ==
    /\ call' = [op |-> "build_user_item_matrix"]
    /\ result' = [type |-> "matrix", matrix |-> BuildUserItemMatrix]
    /\ UNCHANGED db

\* UnifiedCollaborativeFilter.recommend on a filter built for the call.
CollabRecommendCall ==
    \E user_id \in Users, top_n \in 1..MaxTopN :
        \E recs \in CollabRecommend(Matrix, user_id, top_n) :
            /\ call' = [op |-> "collab_recommend", user_id |-> user_id, top_n |-> top_n]
            /\ result' = [type |-> "recommendations", items |-> recs]
            /\ UNCHANGED db

-----------------------------------------------------------------------------
(* The movies-only recommender behind /recommendations/for-you             *)
(* (CollaborativeFilter, ContentBasedFilter, HybridRecommender).  Scores   *)
(* of the two engines are in units of 1/Scale, blended scores in units of  *)
(* 1/(10 * Scale).                                                         *)

SimilarUsersTopK == 20

\* The items of seq in the order a dict keeps them when they are inserted
\* one after the other: by first occurrence.
InsertionOrder(seq) ==
    [k \in DOMAIN IdSeq({i \in DOMAIN seq : \A j \in 1..(i - 1) : seq[j] # seq[i]}) |->
        seq[IdSeq({i \in DOMAIN seq : \A j \in 1..(i - 1) : seq[j] # seq[i]})[k]]]

RECURSIVE Flatten(_)
Flatten(seqs) == IF seqs = <<>> THEN <<>> ELSE Head(seqs) \o Flatten(Tail(seqs))

\* [(movie_id, score) ...][:top_n] of a sorted list of ids
MovieRecs(ids, score, top_n) ==
    Take([i \in DOMAIN ids |-> [movie_id |-> ids[i], score |-> score[ids[i]]]], top_n)

\* [(self.user_ids[idx], user_similarities[idx]) for idx in similar_indices]
SimilarUsersAt(M, user_sims, similar_indices) ==
    [k \in DOMAIN similar_indices |->
        [user_id |-> M.index[similar_indices[k]], similarity |-> user_sims[similar_indices[k]]]]

SimilarUsersFrom(M, user_sims, top_k) ==
    {SimilarUsersAt(M, user_sims, DropFirstTake(order, top_k)) : order \in Argsort(user_sims)}

\* CollaborativeFilter.get_similar_users on a filter whose matrix is M: the
\* lists it may return (np.argsort leaves equal similarities in any order).
GetSimilarUsers(M, user_id, top_k) ==
    IF M.empty \/ user_id \notin Range(M.index) THEN {<<>>}
    ELSE SimilarUsersFrom(M, UserSims(M, user_id), top_k)

\* CollaborativeFilter._get_popular_movies: ready movies by view_count
\* descending (rows of equal view_count in the order the database gives
\* them), each with score 5.0.
GetPopularMovies(top_n) ==
    {MovieRecs(order, [m \in Range(order) |-> 5 * Scale], top_n)
     : order \in DescendingOrders({m \in DOMAIN movies : movies[m].status = "ready"},
                                  [m \in DOMAIN movies |-> movies[m].view_count])}

\* The movies the loop over similar_users inserts into movie_scores, in
\* insertion order.
NeighbourMovies(M, user_id, similar_users) ==
    InsertionOrder(Flatten([n \in DOMAIN similar_users |->
        SelectSeq(M.columns, LAMBDA m :
            /\ M.cell[user_id, m] = 0
            /\ M.cell[similar_users[n].user_id, m] > 0)]))

\* movie_scores after the normalisation by total_similarity
MovieScoresFrom(M, similar_users, total_similarity) ==
    [m \in Range(M.columns) |->
        IF total_similarity > 0
        THEN (Scale * SumOver(DOMAIN similar_users, [n \in DOMAIN similar_users |->
                  M.cell[similar_users[n].user_id, m] * similar_users[n].similarity]))
             \div total_similarity
        ELSE SumOver(DOMAIN similar_users, [n \in DOMAIN similar_users |->
                  M.cell[similar_users[n].user_id, m] * similar_users[n].similarity])]

TotalSimilarity(similar_users) ==
    SumOver(DOMAIN similar_users, [n \in DOMAIN similar_users |-> similar_users[n].similarity])

\* recommend_for_user from similar_users on
RecommendFrom(M, user_id, similar_users, top_n) ==
    IF similar_users = <<>> THEN GetPopularMovies(top_n)
    ELSE {MovieRecs(SortedDesc(NeighbourMovies(M, user_id, similar_users),
                               MovieScoresFrom(M, similar_users, TotalSimilarity(similar_users))),
                    MovieScoresFrom(M, similar_users, TotalSimilarity(similar_users)), top_n)}

\* CollaborativeFilter.recommend_for_user on a filter built for the call:
\* the lists of (movie_id, score) it may return.
RecommendForUser(M, user_id, top_n) ==
    IF M.empty \/ user_id \notin Range(M.index) THEN GetPopularMovies(top_n)
    ELSE UNION {RecommendFrom(M, user_id, similar_users, top_n)
                : similar_users \in GetSimilarUsers(M, user_id, SimilarUsersTopK)}

LikedPercentage == 70
HistoryLimit == 10
HistorySimilarTopN == 5

\* The movies of the user's watch records with watch_percentage > 70.
LikedMovies(user_id) ==
    {m \in DOMAIN movies : <<user_id, m>> \in DOMAIN watch_history
                            /\ watch_history[<<user_id, m>>] > LikedPercentage}

\* order_by(watched_at.desc()).limit(10): the tables of the model hold no
\* watched_at, so the records may come in any order.
WatchedMovieOrders(user_id) ==
    {Take(order, HistoryLimit) : order \in AscendingOrders(LikedMovies(user_id), [m \in DOMAIN movies |-> 0])}

\* One answer of get_similar_movies(movie_id, top_n=5) for every watched movie.
SimilarChoices(space, watched) ==
    {f \in [watched -> UNION {GetSimilarMovies(space, m, HistorySimilarTopN) : m \in watched}] :
        \A m \in watched : f[m] \in GetSimilarMovies(space, m, HistorySimilarTopN)}

\* all_recommendations: the sum of score * watch_percentage / 100 over the
\* watched movies that have movie_id among their similar movies.
WeightedScores(user_id, watched, similar) ==
    [m \in DOMAIN movies |->
        SumOver(watched, [w \in watched |->
            SumOver(DOMAIN similar[w], [i \in DOMAIN similar[w] |->
                IF similar[w][i].movie_id = m
                THEN similar[w][i].score * watch_history[<<user_id, w>>] ELSE 0])])
        \div 100]

\* The keys of all_recommendations in insertion order, without watched_ids.
UnwatchedSimilar(user_id, watched_movies, similar) ==
    SelectSeq(InsertionOrder(Flatten([n \in DOMAIN watched_movies |->
                  [i \in DOMAIN similar[watched_movies[n]] |-> similar[watched_movies[n]][i].movie_id]])),
              LAMBDA m : <<user_id, m>> \notin DOMAIN watch_history)

\* recommend_based_on_history from the similar movies on (list.sort is stable)
HistoryRank(user_id, watched_movies, similar, top_n) ==
    MovieRecs(SortedDesc(UnwatchedSimilar(user_id, watched_movies, similar),
                         WeightedScores(user_id, Range(watched_movies), similar)),
              WeightedScores(user_id, Range(watched_movies), similar), top_n)

\* ContentBasedFilter.recommend_based_on_history on a filter whose feature
\* matrix can be built: the lists of (movie_id, score) it may return.
RecommendBasedOnHistory(space, user_id, top_n) ==
    IF LikedMovies(user_id) = {} THEN {<<>>}
    ELSE {HistoryRank(user_id, watched_movies, similar, top_n)
          : watched_movies \in WatchedMovieOrders(user_id),
            similar \in SimilarChoices(space, LikedMovies(user_id))}

\* The first get_similar_movies builds the feature matrix, and fit_transform
\* raises ValueError when the ready movies hold no token.
HistoryRaises(space, user_id) == LikedMovies(user_id) # {} /\ space.raises

\* collaborative_weight = 0.7 and content_weight = 0.3, in tenths.
collaborative_weight == 7
content_weight == 3
AutoThreshold == 5

Strategies == {"auto", "hybrid", "collaborative", "content"}

NameError == [type |-> "error", reason |-> "NameError"]

RecIds(recs) == [i \in DOMAIN recs |-> recs[i].movie_id]

\* dict(recs).get(movie_id, 0)
MovieScoreOf(recs, movie_id) ==
    IF \E i \in DOMAIN recs : recs[i].movie_id = movie_id
    THEN recs[CHOOSE i \in DOMAIN recs : recs[i].movie_id = movie_id].score
    ELSE 0

\* combined_scores of _get_hybrid_recommendations
CombinedScores(collab_recs, content_recs) ==
    [m \in Range(RecIds(collab_recs)) \cup Range(RecIds(content_recs)) |->
        MovieScoreOf(collab_recs, m) * collaborative_weight
        + MovieScoreOf(content_recs, m) * content_weight]

\* sorted(combined_scores.items(), key=score, reverse=True)[:top_n]
HybridRecommendations(collab_recs, content_recs, top_n) ==
    MovieRecs(SortedDesc(InsertionOrder(RecIds(collab_recs) \o RecIds(content_recs)),
                         CombinedScores(collab_recs, content_recs)),
              CombinedScores(collab_recs, content_recs), top_n)

\* HybridRecommender._format_recommendations: an empty list for no
\* recommendations and when none of them is a ready movie; otherwise the
\* loop body evaluates the name user_id, which the method does not define,
\* for the first ready movie and the call ends in NameError.
FormatRecommendations(recommendations) ==
    IF \E i \in DOMAIN recommendations :
          /\ recommendations[i].movie_id \in DOMAIN movies
          /\ movies[recommendations[i].movie_id].status = "ready"
    THEN NameError
    ELSE [type |-> "recommendations", items |-> <<>>]

\* The strategy get_recommendations goes on with.
ResolveStrategy(user_id, strategy) ==
    IF strategy = "auto"
    THEN IF Cardinality({p \in DOMAIN watch_history : p[1] = user_id}) < AutoThreshold
         THEN "content" ELSE "hybrid"
    ELSE strategy

GetCollaborativeRecommendations(M, user_id, top_n) ==
    {FormatRecommendations(recommendations) : recommendations \in RecommendForUser(M, user_id, top_n)}

GetContentRecommendations(space, user_id, top_n) ==
    IF HistoryRaises(space, user_id) THEN {Raised}
    ELSE {FormatRecommendations(recommendations)
          : recommendations \in RecommendBasedOnHistory(space, user_id, top_n)}

GetHybridRecommendations(space, M, user_id, top_n) ==
    IF HistoryRaises(space, user_id) THEN {Raised}
    ELSE {FormatRecommendations(HybridRecommendations(collab_recs, content_recs, top_n))
          : collab_recs \in RecommendForUser(M, user_id, top_n * 2),
            content_recs \in RecommendBasedOnHistory(space, user_id, top_n * 2)}

\* HybridRecommender.get_recommendations with the engines' inputs given:
\* the outcomes it may have.
GetRecommendationsWith(space, M, user_id, top_n, strategy) ==
    IF strategy = "collaborative" THEN GetCollaborativeRecommendations(M, user_id, top_n)
    ELSE IF strategy = "content" THEN GetContentRecommendations(space, user_id, top_n)
    ELSE GetHybridRecommendations(space, M, user_id, top_n)

GetRecommendations(user_id, top_n, strategy) ==
    GetRecommendationsWith(BuildFeatureMatrix, BuildUserItemMatrix, user_id, top_n,
                           ResolveStrategy(user_id, strategy))

\* GET /recommendations/for-you of the movie router.
GetPersonalizedRecommendations ==
    \E user_id \in Users, top_n \in 1..MaxTopN, strategy \in Strategies :
        \E r \in GetRecommendations(user_id, top_n, strategy) :
            /\ call' = [op |-> "get_recommendations", user_id |-> user_id,
                        top_n |-> top_n, strategy |-> strategy]
            /\ result' = r
            /\ UNCHANGED db

\* CollaborativeFilter.recommend_for_user on a filter built for the call.
RecommendForUserCall ==
    \E user_id \in Users, top_n \in 1..MaxTopN :
        \E recs \in RecommendForUser(BuildUserItemMatrix, user_id, top_n) :
            /\ call' = [op |-> "recommend_for_user", user_id |-> user_id, top_n |-> top_n]
            /\ result' = [type |-> "recommendations", items |-> recs]
            /\ UNCHANGED db

\* ContentBasedFilter.recommend_based_on_history on a filter built for the call.
RecommendBasedOnHistoryCall ==
    \E user_id \in Users, top_n \in 1..MaxTopN :
        \E r \in (IF HistoryRaises(BuildFeatureMatrix, user_id) THEN {Raised}
                  ELSE {[type |-> "recommendations", items |-> recs]
                        : recs \in RecommendBasedOnHistory(BuildFeatureMatrix, user_id, top_n)}) :
            /\ call' = [op |-> "recommend_based_on_history", user_id |-> user_id, top_n |-> top_n]
            /\ result' = r
            /\ UNCHANGED db

-----------------------------------------------------------------------------
(* Two requests to one collaborative engine.  np.argsort and sort_values   *)
(* leave the order of equal values open, but they are functions of their   *)
(* input: two calls on equal arrays return the same order.                 *)

\* The users of the two requests: one more than Users, so that two users
\* with the same history have a third user as neighbour.
PairUsers == 1..(NumUsers + 1)

\* (self.matrix > 0).sum(axis=0)
PopularityOf(M) ==
    [j \in DOMAIN M.columns |->
        Cardinality({u \in Range(M.index) : M.cell[u, M.columns[j]] > 0})]

\* The users at similar_indices
NeighborsAt(M, similar_indices) == {M.index[similar_indices[n]] : n \in DOMAIN similar_indices}

\* UnifiedCollaborativeFilter.recommend from similar_indices on, with the
\* order sort_values gives the popularity counts.
RecommendAt(M, user_id, similar_indices, user_sims, wsum, popular_order, top_n) ==
    IF wsum = 0 THEN PopularHead(M.columns, PopularityOf(M), popular_order, top_n)
    ELSE RankPredicted(M, user_id, Predicted(M, similar_indices, user_sims, wsum), top_n)

\* UnifiedCollaborativeFilter.recommend of a user of the matrix when
\* argsort gives similar_indices and sort_values popular_order: the
\* neighbours used and the list returned.
RecommendUsing(M, user_id, user_sims, similar_indices, popular_order, top_n) ==
    [neighbors |-> NeighborsAt(M, similar_indices),
     items |-> RecommendAt(M, user_id, similar_indices, user_sims,
                           SimWeightSum(similar_indices, user_sims), popular_order, top_n)]

\* recommend(user_id, top_n) of a built filter under the two orders.
RecommendOne(M, user_id, user_sims, order, popular_order, top_n) ==
    IF M.empty THEN [neighbors |-> {}, items |-> <<>>]
    ELSE IF user_id \notin Range(M.index)
    THEN [neighbors |-> {},
          items |-> PopularHead(M.columns, PopularityOf(M), popular_order, top_n)]
    ELSE RecommendUsing(M, user_id, user_sims, DropFirstTake(order, NeighborCount),
                        popular_order, top_n)

\* The row of the similarity matrix a request works on: none for a user
\* that is not in the matrix.
SimsOf(M, user_id) ==
    IF M.empty \/ user_id \notin Range(M.index) THEN <<>> ELSE UserSims(M, user_id)

\* The orders sort_values may give the popularity counts, when one of the
\* two requests gets as far as _popular.
PopularOrders(M, needed) == IF needed THEN Argsort(PopularityOf(M)) ELSE {<<>>}

ReachesPopular(M, user_sims, order) ==
    /\ ~M.empty
    /\ SimWeightSum(DropFirstTake(order, NeighborCount), user_sims) = 0

RecommendPairWith(M, first, second, sims1, sims2, top_n) ==
    \E order1 \in Argsort(sims1), order2 \in Argsort(sims2) :
      \E popular_order \in PopularOrders(M, ReachesPopular(M, sims1, order1)
                                             \/ ReachesPopular(M, sims2, order2)) :
        /\ (sims1 # <<>> /\ sims2 = sims1) => order2 = order1
        /\ call' = [op |-> "recommend_pair", first |-> first, second |-> second, top_n |-> top_n]
        /\ result' = [type |-> "pair",
                      first |-> RecommendOne(M, first, sims1, order1, popular_order, top_n),
                      second |-> RecommendOne(M, second, sims2, order2, popular_order, top_n)]
        /\ UNCHANGED db

\* recommend(first, top_n) and recommend(second, top_n) of one
\* UnifiedCollaborativeFilter.
RecommendPairOn(M, first, second, top_n) ==
    RecommendPairWith(M, first, second, SimsOf(M, first), SimsOf(M, second), top_n)

RecommendPair ==
    \E first \in PairUsers, second \in PairUsers, top_n \in 1..MaxTopN :
        first < second /\ RecommendPairOn(Matrix, first, second, top_n)

SimilarUsersPairWith(M, first, second, sims1, sims2, top_k) ==
    \E order1 \in Argsort(sims1), order2 \in Argsort(sims2) :
        /\ (sims1 # <<>> /\ sims2 = sims1) => order2 = order1
        /\ call' = [op |-> "get_similar_users_pair", first |-> first, second |-> second,
                    top_n |-> top_k]
        /\ result' = [type |-> "pair",
                      first |-> SimilarUsersAt(M, sims1, DropFirstTake(order1, top_k)),
                      second |-> SimilarUsersAt(M, sims2, DropFirstTake(order2, top_k))]
        /\ UNCHANGED db

\* get_similar_users(first, top_k) and get_similar_users(second, top_k) of
\* one CollaborativeFilter.
SimilarUsersPairOn(M, first, second, top_k) ==
    SimilarUsersPairWith(M, first, second, SimsOf(M, first), SimsOf(M, second), top_k)

SimilarUsersPair ==
    \E first \in PairUsers, second \in PairUsers, top_k \in 1..MaxTopN :
        first < second /\ SimilarUsersPairOn(BuildUserItemMatrix, first, second, top_k)

\* GET /recommendations/for-you of the series router: recommend_unified,
\* the UnifiedHybridRecommender built for the request and asked once.
UnifiedResult(r) ==
    IF r.raised THEN Raised
    ELSE [type |-> "unified", movies |-> r.movies, series |-> r.series]

UnifiedRecommendations ==
    \E user_id \in Users, top_n \in 1..MaxTopN :
        \E r \in Recommend(user_id, top_n) :
            /\ call' = [op |-> "recommend_unified", user_id |-> user_id, top_n |-> top_n]
            /\ result' = UnifiedResult(r)
            /\ UNCHANGED db

-----------------------------------------------------------------------------
(* SpecEpisode: the seasons and episodes of series 1 are arbitrary, series  *)
(* 2 has one ready episode in every season; the catalog text is either     *)
(* filled or blank (no description, director, cast or genre anywhere).     *)

InitEpisode ==
    /\ \E g \in SUBSET (1..MaxSeasonNumber) :
         \E st \in [g \X (1..MaxEpisodeNumber) -> EpisodeStatus \cup {"absent"}] :
            /\ seasons = SeasonsOf([s \in {1, 2} |-> IF s = 1 THEN g ELSE 1..MaxSeasonNumber])
            /\ episodes = EpisodesOf(
                 [x \in ({1} \X g \X (1..MaxEpisodeNumber)) \cup ({2} \X (1..MaxSeasonNumber) \X {1}) |->
                    IF x[1] = 1 THEN st[<<x[2], x[3]>>] ELSE "ready"])
    /\ \E blank \in BOOLEAN :
         /\ movies = [m \in MovieIds |->
                        [status |-> IF m = 1 THEN "ready" ELSE "pending",
                         genres |-> IF blank THEN {} ELSE {"g1"},
                         text |-> IF blank THEN {} ELSE {"w1"}]]
         /\ series = [s \in SeriesIds |->
                        [status |-> "active",
                         text |-> IF blank THEN {} ELSE IF s = 1 THEN {"w1"} ELSE {"w1", "w2"}]]
    /\ watch_history = NoRows
    /\ movie_ratings = NoRows
    /\ episode_watch_history = NoRows
    /\ series_ratings = NoRows
    /\ Idle

NextEpisode == PlayNextAfterEpisode

SpecEpisode == InitEpisode /\ [][NextEpisode]_vars

-----------------------------------------------------------------------------
(* Properties of next_for_episode                                          *)

\* The request answered in this state is next_for_episode on an episode
\* that exists (and whose season exists).
EpisodeCall ==
    /\ call.op = "next_for_episode"
    /\ call.episode_id \in DOMAIN episodes
    /\ episodes[call.episode_id].season_id \in DOMAIN seasons

\* The ready episodes numbered n + 1 in the season of the finished episode.
ReadySuccessors ==
    {e \in DOMAIN episodes :
        /\ episodes[e].season_id = episodes[call.episode_id].season_id
        /\ episodes[e].episode_number = episodes[call.episode_id].episode_number + 1
        /\ episodes[e].status = "ready"}

\* The seasons of the same series numbered s + 1.
SuccessorSeasons ==
    {s \in DOMAIN seasons :
        /\ seasons[s].series_id = seasons[episodes[call.episode_id].season_id].series_id
        /\ seasons[s].season_number = seasons[episodes[call.episode_id].season_id].season_number + 1}

\* C1: if the finished episode has number n in season S and a ready episode
\* numbered n + 1 exists in S, next_for_episode returns type "episode", and
\* the episode it names is that one: in season S, numbered n + 1, ready,
\* reported with the season number of S.
C1_NextEpisodeInSeason ==
    (EpisodeCall /\ ReadySuccessors # {}) =>
        /\ result.type = "episode"
        /\ result.episode_id \in ReadySuccessors
        /\ Cardinality(ReadySuccessors) = 1
        /\ result.episode_number = episodes[call.episode_id].episode_number + 1
        /\ result.season_number = seasons[episodes[call.episode_id].season_id].season_number

\* C1 happens: episode 1 of a season finished and the ready episode 2 of
\* that season was returned.
C1_Witness ==
    /\ EpisodeCall
    /\ ReadySuccessors # {}
    /\ episodes[call.episode_id].episode_number = 1
    /\ result.type = "episode"
    /\ result.episode_number = 2

\* C3: next_for_episode on an existing episode returns
\* "series_recommendation" exactly when its season has no ready episode
\* numbered n + 1 and the season numbered s + 1 of the series yields no ready
\* episode (there is no such season, or it has no ready episode).
C3_SeriesRecommendationExactly ==
    EpisodeCall =>
        (result.type = "series_recommendation"
            <=> /\ ReadySuccessors = {}
                /\ \A s \in SuccessorSeasons :
                     \A e \in DOMAIN episodes :
                        episodes[e].season_id = s => episodes[e].status # "ready")

\* C4: on a season rollover (no ready episode n + 1, a season s + 1 exists)
\* an episode is emitted only if the first episode of season s + 1, the one
\* with the lowest episode_number of that season, is ready, and the episode
\* emitted is that first episode.
C4_RolloverPlaysFirstEpisode ==
    (EpisodeCall /\ ReadySuccessors = {} /\ SuccessorSeasons # {} /\ result.type = "episode") =>
        /\ result.episode_id \in DOMAIN episodes
        /\ episodes[result.episode_id].season_id \in SuccessorSeasons
        /\ episodes[result.episode_id].status = "ready"
        /\ \A e \in DOMAIN episodes :
              episodes[e].season_id = episodes[result.episode_id].season_id
                 => episodes[result.episode_id].episode_number <= episodes[e].episode_number

-----------------------------------------------------------------------------
(* SpecMovie: every series has one season of ready episodes; the statuses  *)
(* of the movies vary, the series are all active or all inactive.  User 1  *)
(* has watched no movie, movie 1 or every movie, and no episode, the       *)
(* episodes of series 1 or every episode; user 2 has watched movie 1 and   *)
(* rated series 2; any other user has done nothing.                        *)

OneSeasonEach ==
    /\ seasons = SeasonsOf([s \in SeriesIds |-> {1}])
    /\ episodes = EpisodesOf([x \in SeriesIds \X {1} \X (1..MaxEpisodeNumber) |-> "ready"])

\* Movies and series with odd ids share the token "w1", those with even ids
\* the token "w2"; movie 1 also has a genre.
OddEvenText(id) == IF id % 2 = 1 THEN {"w1"} ELSE {"w2"}

InitMovie ==
    /\ OneSeasonEach
    /\ \E ready \in SUBSET MovieIds :
         movies = [m \in MovieIds |->
                     [status |-> IF m \in ready THEN "ready" ELSE "pending",
                      genres |-> IF m = 1 THEN {"g1"} ELSE {},
                      text |-> OddEvenText(m)]]
    /\ \E status \in {"active", "inactive"} :
         series = [s \in SeriesIds |-> [status |-> status, text |-> OddEvenText(s)]]
    /\ \E seen \in {{}, {1}, MovieIds} :
         watch_history = [p \in ({1} \X seen) \cup {<<2, 1>>} |-> 95]
    /\ \E eps \in {{}, {e \in DOMAIN episodes : EpToSeries[e] = 1}, DOMAIN episodes} :
         episode_watch_history = [p \in {1} \X eps |-> 95]
    /\ movie_ratings = NoRows
    /\ series_ratings = [p \in {<<2, 2>>} |-> 5]
    /\ Idle

NextMovie == PlayNextAfterMovie

SpecMovie == InitMovie /\ [][NextMovie]_vars

-----------------------------------------------------------------------------
(* Properties of next_for_movie                                            *)

MovieCall == call.op = "next_for_movie"

\* The outcome of the content-similarity fallback and the empty outcome.
FallbackResult ==
    \/ result.type = "none"
    \/ result.type = "movie" /\ result.reason = "You might also like"

\* C6: next_for_movie resolves in strict priority order.  Whenever the
\* request returned, it is explained by a result of the Hybrid Blender for
\* the user such that: if that result has a movie, the outcome is type
\* "movie" naming the first entry of its movies list; otherwise, if it has a
\* series, the outcome is type "series" naming the first entry of its series
\* list; the content-similarity fallback and "none" occur only when both
\* lists are empty.
C6_MovieThenSeriesThenFallback ==
    (MovieCall /\ result.type # "error") =>
        \E recs \in Recommend(call.user_id, MovieRecsTopN) :
            /\ ~recs.raised
            /\ recs.movies # <<>> =>
                  /\ result.type = "movie"
                  /\ result.movie_id = recs.movies[1].movie_id
                  /\ result.reason = recs.movies[1].reason
            /\ (recs.movies = <<>> /\ recs.series # <<>>) =>
                  /\ result.type = "series"
                  /\ result.series_id = recs.series[1].series_id
            /\ FallbackResult => (recs.movies = <<>> /\ recs.series = <<>>)

\* C6 happens: the Blender proposed no movie but a series, and the series
\* was emitted.
C6_Witness ==
    /\ MovieCall
    /\ result.type = "series"
    /\ \E recs \in Recommend(call.user_id, MovieRecsTopN) :
          /\ ~recs.raised
          /\ recs.movies = <<>>
          /\ recs.series # <<>>
          /\ result.series_id = recs.series[1].series_id

-----------------------------------------------------------------------------
(* SpecContent: nobody has watched or rated anything; movie 1 is ready and *)
(* has text, every other movie has one of three texts (none, the text of   *)
(* movie 1, another token) and movie 2 may be pending; series 1 has only   *)
(* a stop word as text, or the token of movie 1, or another token; every   *)
(* other series has the token of movie 1.                                  *)

MovieProfile == {"empty", "copy", "plain"}
SeriesProfile == {"the", "w1", "w2"}

InitContent ==
    /\ OneSeasonEach
    /\ \E st \in {"ready", "pending"}, pr \in [MovieIds \ {1} -> MovieProfile] :
         movies = [m \in MovieIds |->
                     [status |-> IF m = 2 THEN st ELSE "ready",
                      genres |-> IF m = 1 \/ pr[m] = "copy" THEN {"g1"} ELSE {},
                      text |-> IF m = 1 \/ pr[m] = "copy" THEN {"w1"}
                               ELSE IF pr[m] = "empty" THEN {} ELSE {"w2"}]]
    /\ \E pr \in SeriesProfile :
         series = [x \in SeriesIds |->
                     [status |-> "active",
                      text |-> IF x # 1 THEN {"w1"} ELSE {pr}]]
    /\ watch_history = NoRows
    /\ movie_ratings = NoRows
    /\ episode_watch_history = NoRows
    /\ series_ratings = NoRows
    /\ Idle

NextContent ==
    \/ PlayNextAfterEpisode
    \/ PlayNextAfterMovie
    \/ SimilarItems
    \/ SimilarMovies

SpecContent == InitContent /\ [][NextContent]_vars

-----------------------------------------------------------------------------
(* Properties of the content engine and of the fallbacks built on it       *)

\* The finished episode is the last episode of the last season of its series.
LastEpisodeOfSeries ==
    /\ EpisodeCall
    /\ \A e \in DOMAIN episodes :
          episodes[e].season_id = episodes[call.episode_id].season_id
             => episodes[e].episode_number <= episodes[call.episode_id].episode_number
    /\ \A s \in DOMAIN seasons :
          seasons[s].series_id = seasons[episodes[call.episode_id].season_id].series_id
             => seasons[s].season_number <= seasons[episodes[call.episode_id].season_id].season_number

\* C2: when the last episode of the last season of series X finishes,
\* next_for_episode returns "series_recommendation" with at most 5 items, no
\* two items with the same series id and no item whose series id is X.
C2_SeriesRecommendationExcludesFinished ==
    LastEpisodeOfSeries =>
        /\ result.type = "series_recommendation"
        /\ Len(result.items) <= 5
        /\ \A i, j \in DOMAIN result.items :
              result.items[i].series_id = result.items[j].series_id => i = j
        /\ \A i \in DOMAIN result.items :
              result.items[i].series_id # seasons[episodes[call.episode_id].season_id].series_id

\* A play-next request whose finished episode or movie is not in the catalog.
MissingIdCall ==
    \/ call.op = "next_for_episode" /\ call.episode_id \notin DOMAIN episodes
    \/ call.op = "next_for_movie" /\ call.movie_id \notin DOMAIN movies

\* C5: a play-next call on a missing episode or movie id reports a "not
\* found" condition: its result has neither the type "none" of an empty
\* recommendation nor a type that recommends something.
C5_MissingIdIsNotFound ==
    MissingIdCall =>
        result.type \notin {"none", "episode", "series_recommendation", "movie", "series"}

\* The similarity get_similar computes between two items of the vector space.
SimilarityIn(space, a, b) ==
    CosineSimilarity(space.tfidf_matrix[IndexOf(space.item_ids, a)],
                     space.tfidf_matrix[IndexOf(space.item_ids, b)])

\* The ready movies of the vector space other than the finished movie.
OtherReadyMovies(space) ==
    {m \in DOMAIN movies :
        /\ m # call.movie_id
        /\ movies[m].status = "ready"
        /\ Key("movie", m) \in Range(space.item_ids)}

NearestReadyMovie(space, others) ==
    IF others = {} THEN result.type = "none"
    ELSE /\ result.type = "movie"
         /\ result.movie_id \in others
         /\ \A m \in others :
               SimilarityIn(space, Key("movie", call.movie_id), Key("movie", m))
                  <= SimilarityIn(space, Key("movie", call.movie_id), Key("movie", result.movie_id))

\* C7: when the Blender proposes nothing and the finished movie is in the
\* vector space, next_for_movie emits the ready movie most similar to the
\* finished movie, and "none" only if the space holds no other ready movie.
C7_FallbackIsNearestReadyMovie ==
    (/\ MovieCall
     /\ FallbackResult
     /\ Key("movie", call.movie_id) \in Range(ContentBuild.item_ids))
        => NearestReadyMovie(ContentBuild, OtherReadyMovies(ContentBuild))

\* C8: the list returned by the content engine's similar(k, n) never
\* contains k itself (get_similar of the unified filter, get_similar_movies
\* of the movies-only filter).
C8_SimilarExcludesSelf ==
    /\ call.op = "get_similar" =>
          \A i \in DOMAIN result.items : result.items[i].key # call.item_key
    /\ call.op = "get_similar_movies" =>
          \A i \in DOMAIN result.items : result.items[i].movie_id # call.movie_id

-----------------------------------------------------------------------------
(* SpecCollab: every movie is ready and every series active; any set of   *)
(* (user, movie) pairs over movies 1 and 2 has a watch record, any user    *)
(* may have rated movie 1, user 1 may have watched any episodes of series  *)
(* 1 and may have rated series 1.                                          *)

EpisodePct(e) == IF episodes[e].episode_number = 1 THEN 30 ELSE 95

InitCollab ==
    /\ OneSeasonEach
    /\ movies = [m \in MovieIds |->
                   [status |-> "ready", genres |-> IF m = 1 THEN {"g1"} ELSE {}, text |-> OddEvenText(m)]]
    /\ series = [x \in SeriesIds |-> [status |-> "active", text |-> OddEvenText(x)]]
    /\ \E w \in SUBSET (Users \X {1, 2}) : watch_history = [p \in w |-> 60]
    /\ \E r \in SUBSET (Users \X {1}) : movie_ratings = [p \in r |-> 5]
    /\ \E w \in SUBSET {e \in DOMAIN episodes : seasons[episodes[e].season_id].series_id = 1} :
          episode_watch_history = [p \in {1} \X w |-> EpisodePct(p[2])]
    /\ \E r \in SUBSET {<<1, 1>>} : series_ratings = [p \in r |-> 2]
    /\ Idle

NextCollab ==
    \/ Build
    \/ BuildLegacy
    \/ CollabRecommendCall

SpecCollab == InitCollab /\ [][NextCollab]_vars

-----------------------------------------------------------------------------
(* Properties of the aggregator and of the collaborative engine            *)

\* The built matrix M has the cell (u, k) and it holds the value v.
CellIs(M, u, k, v) ==
    /\ ~M.empty
    /\ u \in Range(M.index)
    /\ k \in Range(M.columns)
    /\ M.cell[u, k] = v

\* C9: in the user-item matrix the aggregator builds, the cell of every
\* (user, item) pair that has an explicit rating record equals that rating,
\* whatever watch records exist for the pair, for movie items and series
\* items, also when the pair has a rating but no watch record (the unified
\* matrix keyed by item keys, the movies-only matrix keyed by movie ids).
C9_ExplicitRatingInCell ==
    /\ call.op = "build" =>
          /\ \A p \in DOMAIN movie_ratings :
                CellIs(result.matrix, p[1], Key("movie", p[2]), movie_ratings[p])
          /\ \A p \in DOMAIN series_ratings :
                CellIs(result.matrix, p[1], Key("series", p[2]), series_ratings[p])
    /\ call.op = "build_user_item_matrix" =>
          \A p \in DOMAIN movie_ratings :
             CellIs(result.matrix, p[1], p[2], movie_ratings[p])

\* C10: for a user that has a row in the matrix, no item whose cell in that
\* row is nonzero appears in the output of the collaborative engine's
\* recommend(user_id, top_n).
C10_RecommendExcludesWatched ==
    (call.op = "collab_recommend" /\ ~Matrix.empty /\ call.user_id \in Range(Matrix.index)) =>
        \A i \in DOMAIN result.items : Matrix.cell[call.user_id, result.items[i].key] = 0

-----------------------------------------------------------------------------
(* SpecUnified: series 1 has every season and series 2 one; user 1 has     *)
(* watched none, one or two movies and none, one season or all of series   *)
(* 1, and may have rated the movies left; user 2 has watched movie 1 and   *)
(* an episode of series 2 and rated movie 3.  Movie 3 and series 2 may be  *)
(* withdrawn from serving.                                                 *)

InitUnified ==
    /\ seasons = SeasonsOf([s \in SeriesIds |-> IF s = 1 THEN 1..MaxSeasonNumber ELSE {1}])
    /\ episodes = EpisodesOf([x \in {y \in SeriesIds \X (1..MaxSeasonNumber) \X (1..MaxEpisodeNumber) :
                                        y[1] = 1 \/ y[2] = 1} |-> "ready"])
    /\ \E st \in {"ready", "pending"} :
         movies = [m \in MovieIds |->
                     [status |-> IF m = 3 THEN st ELSE "ready",
                      genres |-> IF m = 1 THEN {"g1"} ELSE {},
                      text |-> OddEvenText(m)]]
    /\ \E st \in {"active", "inactive"} :
         series = [x \in SeriesIds |->
                     [status |-> IF x = 2 THEN st ELSE "active", text |-> OddEvenText(x)]]
    /\ \E seen \in {{}, {1}, {1, 2}} :
         watch_history = [p \in ({1} \X seen) \cup {<<2, 1>>} |-> 95]
    /\ \E eps \in {{}, {e \in DOMAIN episodes : episodes[e].season_id = SeasonId(1, 1)},
                    {e \in DOMAIN episodes : EpToSeries[e] = 1}} :
         episode_watch_history =
             [p \in ({1} \X eps) \cup {<<2, EpisodeId(SeasonId(2, 1), 1)>>} |-> 95]
    /\ \E rated \in {{}, {2, 3}} :
         movie_ratings = [p \in ({1} \X rated) \cup {<<2, 3>>} |-> 4]
    /\ series_ratings = NoRows
    /\ Idle

NextUnified == UnifiedRecommendations

SpecUnified == InitUnified /\ [][NextUnified]_vars

-----------------------------------------------------------------------------
(* SpecForYou: the movies-only recommender.  Movies 1..NumMovies are ready  *)
(* (movie 3 may be pending), three more movies were withdrawn after users  *)
(* watched them; view counts are all equal or all different.  User 1 has   *)
(* watched nothing, one, two or five movies (movie 1 to 95 %, the others   *)
(* to 60 %), user 2 nothing or movies 1 and 3.                             *)

WithdrawnMovies == (NumMovies + 1)..(NumMovies + 3)

InitForYou ==
    /\ OneSeasonEach
    /\ \E st \in {"ready", "pending"}, counted \in BOOLEAN :
         movies = [m \in MovieIds \cup WithdrawnMovies |->
                     [status |-> IF m \in WithdrawnMovies \/ (m = 3 /\ st = "pending")
                                 THEN "pending" ELSE "ready",
                      genres |-> IF m = 1 THEN {"g1"} ELSE {},
                      text |-> IF m = 2 THEN {"w1", "w2"} ELSE OddEvenText(m),
                      view_count |-> IF counted THEN m ELSE 0]]
    /\ series = [x \in SeriesIds |-> [status |-> "active", text |-> OddEvenText(x)]]
    /\ \E seen \in {{}, {1}, {1, 2}, {1, 2} \cup WithdrawnMovies},
          seen2 \in {{}, {1, 3}} :
         watch_history = [p \in ({1} \X seen) \cup ({2} \X seen2) |->
                            IF p[2] = 1 THEN 95 ELSE 60]
    /\ \E r \in SUBSET {<<2, 3>>} : movie_ratings = [p \in r |-> 5]
    /\ episode_watch_history = NoRows
    /\ series_ratings = NoRows
    /\ Idle

NextForYou ==
    \/ GetPersonalizedRecommendations
    \/ RecommendForUserCall
    \/ RecommendBasedOnHistoryCall

SpecForYou == InitForYou /\ [][NextForYou]_vars

-----------------------------------------------------------------------------
(* SpecPair: users 1 and 2 have each watched nothing or movies 1 and 2     *)
(* and may have rated movie 1; every other user has watched movies 2 and   *)
(* 3, and the last user has rated series 2.                                *)

LastUser == NumUsers + 1

InitPair ==
    /\ OneSeasonEach
    /\ movies = [m \in MovieIds |->
                   [status |-> "ready", genres |-> IF m = 1 THEN {"g1"} ELSE {}, text |-> OddEvenText(m)]]
    /\ series = [x \in SeriesIds |-> [status |-> "active", text |-> OddEvenText(x)]]
    /\ \E seen \in [{1, 2} -> {{}, {1, 2}}] :
         watch_history = [p \in {q \in {1, 2} \X MovieIds : q[2] \in seen[q[1]]}
                                \cup ((PairUsers \ {1, 2}) \X {2, 3}) |->
                            IF p[2] = 1 THEN 60 ELSE 95]
    /\ \E rated \in SUBSET {1, 2} : movie_ratings = [p \in rated \X {1} |-> 5]
    /\ episode_watch_history = NoRows
    /\ series_ratings = [p \in {<<LastUser, 2>>} |-> 4]
    /\ Idle

NextPair ==
    \/ RecommendPair
    \/ SimilarUsersPair

SpecPair == InitPair /\ [][NextPair]_vars

UnifiedCall == call.op = "recommend_unified" /\ result.type = "unified"

\* The keys the two engines hand to the blender for one request: the content
\* engine's on the content-only path, both engines' on the hybrid path.
ProposedKeys(space, M, user_id, total_watch, top_n) ==
    RecKeys(RecommendForHistory(space, GetWatchedKeys(user_id), top_n * 2))
    \cup IF total_watch < ColdStartThreshold THEN {}
         ELSE UNION {RecKeys(recs) : recs \in CollabRecommend(M, user_id, top_n * 2)}

Proposed == ProposedKeys(ContentBuild, Matrix, call.user_id, TotalWatch(call.user_id), call.top_n)

\* C11: in every result of recommend_unified the entries of the movies list
\* are distinct movies whose movie-namespace key was proposed for the
\* request, the entries of the series list distinct series whose
\* series-namespace key was proposed, and neither list is longer than top_n.
C11_ListsPartitionByNamespace ==
    UnifiedCall =>
        /\ Len(result.movies) <= call.top_n
        /\ Len(result.series) <= call.top_n
        /\ \A i \in DOMAIN result.movies :
              /\ result.movies[i].type = "movie"
              /\ DOMAIN result.movies[i] = {"movie_id", "recommendation_score", "reason", "type"}
              /\ Key("movie", result.movies[i].movie_id) \in Proposed
              /\ \A j \in DOMAIN result.movies :
                    result.movies[j].movie_id = result.movies[i].movie_id => j = i
        /\ \A i \in DOMAIN result.series :
              /\ result.series[i].type = "series"
              /\ DOMAIN result.series[i] = {"series_id", "recommendation_score", "reason", "type"}
              /\ Key("series", result.series[i].series_id) \in Proposed
              /\ \A j \in DOMAIN result.series :
                    result.series[j].series_id = result.series[i].series_id => j = i

\* A request for one item of each kind for which two ready movies and an
\* active series were proposed: both lists are filled and the movies cut.
C11_Witness ==
    /\ UnifiedCall
    /\ call.top_n = 1
    /\ Len(result.movies) = 1
    /\ Len(result.series) = 1
    /\ Cardinality({k \in Proposed : IsMovieKey(k) /\ movies[KeyId(k)].status = "ready"}) >= 2

\* The rows of a table keyed by (user, item) that belong to one user.
RowsOf(table, user_id) == {p \in DOMAIN table : p[1] = user_id}

WatchRecords(user_id) ==
    Cardinality(RowsOf(watch_history, user_id)) + Cardinality(RowsOf(episode_watch_history, user_id))

RatingRecords(user_id) ==
    Cardinality(RowsOf(movie_ratings, user_id)) + Cardinality(RowsOf(series_ratings, user_id))

UnifiedEntries == Range(result.movies) \cup Range(result.series)

\* C12: every entry recommend_unified returns to a user with fewer than 5
\* movie and episode watch records carries the reason of the content-only
\* path, every entry returned to a user with 5 or more the reason of the
\* hybrid path; the user's explicit ratings play no part.
C12_StrategyByWatchRecords ==
    UnifiedCall =>
        \A e \in UnifiedEntries :
            e.reason = IF WatchRecords(call.user_id) < 5
                       THEN "Based on what you've watched"
                       ELSE "Recommended for you"

\* A user with 3 watch records and 2 ratings is answered on the
\* content-only path.
C12_Witness ==
    /\ UnifiedCall
    /\ WatchRecords(call.user_id) < 5
    /\ WatchRecords(call.user_id) + RatingRecords(call.user_id) >= 5
    /\ UnifiedEntries # {}
    /\ \A e \in UnifiedEntries : e.reason = COLD_REASON

\* The content engine's answer for the request in call.
ContentRecs == RecommendForHistory(ContentBuild, GetWatchedKeys(call.user_id), call.top_n * 2)

\* Weight 1.0 in the unit of the blended scores.
FullWeight == COLLAB_WEIGHT + CONTENT_WEIGHT

\* C13: on the content-only path of recommend_unified the score of every
\* returned entry is the content engine's score for its key, taken with
\* weight 1.0.
C13_ColdScoreIsContentScore ==
    (UnifiedCall /\ WatchRecords(call.user_id) < 5) =>
        /\ \A i \in DOMAIN result.movies :
              result.movies[i].recommendation_score =
                  ScoreOf(ContentRecs, Key("movie", result.movies[i].movie_id)) * FullWeight
        /\ \A i \in DOMAIN result.series :
              result.series[i].recommendation_score =
                  ScoreOf(ContentRecs, Key("series", result.series[i].series_id)) * FullWeight

\* collab_score * 0.7 + content_score * 0.3, with 0 for a source that did
\* not propose the key.
BlendedScore(collab_recs, content_recs, k) ==
    ScoreOf(collab_recs, k) * COLLAB_WEIGHT + ScoreOf(content_recs, k) * CONTENT_WEIGHT

\* The keys of one namespace that can be served: ready movies, active series.
Servable(k) ==
    \/ IsMovieKey(k) /\ KeyId(k) \in DOMAIN movies /\ movies[KeyId(k)].status = "ready"
    \/ IsSeriesKey(k) /\ KeyId(k) \in DOMAIN series /\ series[KeyId(k)].status = "active"

\* list is the ranking, cut to top_n, of the servable candidates among
\* cand by the blended score: every entry is a candidate with its blended
\* score, the scores descend, and a servable candidate left out is
\* outscored by a full list.
RankedByBlend(list, keys, cand, collab_recs, content_recs, top_n) ==
    /\ \A i \in DOMAIN list :
          /\ keys[i] \in cand
          /\ list[i].recommendation_score = BlendedScore(collab_recs, content_recs, keys[i])
          /\ \A j \in DOMAIN list : i < j =>
                list[i].recommendation_score >= list[j].recommendation_score
    /\ \A k \in cand : (Servable(k) /\ k \notin Range(keys)) =>
          /\ Len(list) = top_n
          /\ \A i \in DOMAIN list :
                list[i].recommendation_score >= BlendedScore(collab_recs, content_recs, k)

MovieKeysOf(list) == [i \in DOMAIN list |-> Key("movie", list[i].movie_id)]
SeriesKeysOf(list) == [i \in DOMAIN list |-> Key("series", list[i].series_id)]

HybridRanked(collab_recs, content_recs, top_n) ==
    /\ RankedByBlend(result.movies, MovieKeysOf(result.movies),
                     {k \in RecKeys(collab_recs) \cup RecKeys(content_recs) : IsMovieKey(k)},
                     collab_recs, content_recs, top_n)
    /\ RankedByBlend(result.series, SeriesKeysOf(result.series),
                     {k \in RecKeys(collab_recs) \cup RecKeys(content_recs) : IsSeriesKey(k)},
                     collab_recs, content_recs, top_n)

\* C14: on the hybrid path of recommend_unified the candidates are the
\* union of the keys of the collaborative engine's answer and of the content
\* engine's answer, each scored collab * 0.7 + content * 0.3 with 0 for the
\* engine that did not propose it, and the two lists returned are the
\* servable candidates in descending order of that score.
C14_HybridBlendsOverUnion ==
    (UnifiedCall /\ WatchRecords(call.user_id) >= 5) =>
        \E collab_recs \in CollabRecommend(Matrix, call.user_id, call.top_n * 2) :
            HybridRanked(collab_recs, ContentRecs, call.top_n)

\* A hybrid answer with a movie only the content engine proposed, a movie
\* the collaborative engine proposed and a series.
C14_Witness ==
    /\ UnifiedCall
    /\ WatchRecords(call.user_id) >= 5
    /\ result.series # <<>>
    /\ \E collab_recs \in CollabRecommend(Matrix, call.user_id, call.top_n * 2) :
          /\ HybridRanked(collab_recs, ContentRecs, call.top_n)
          /\ \E i, j \in DOMAIN result.movies :
                /\ Key("movie", result.movies[i].movie_id) \notin RecKeys(collab_recs)
                /\ Key("movie", result.movies[j].movie_id) \in RecKeys(collab_recs)
                /\ ScoreOf(collab_recs, Key("movie", result.movies[j].movie_id)) > 0

ForYouCall == call.op = "get_recommendations"

\* The number of watch records and ratings of any kind the user has.
Interactions(user_id) == WatchRecords(user_id) + RatingRecords(user_id)

\* C15: get_recommendations answers a user with 0 interactions with the
\* popularity-ordered fallback (the ready movies by view count, cut to
\* top_n), and with that same list every other user with 0 interactions
\* who asks with the same top_n and strategy.
C15_ZeroInteractionUsersGetPopular ==
    (ForYouCall /\ Interactions(call.user_id) = 0) =>
        /\ result.type = "recommendations"
        /\ \E popular \in GetPopularMovies(call.top_n) :
              [i \in DOMAIN result.items |-> result.items[i].movie_id] = RecIds(popular)
        /\ \A u \in Users : Interactions(u) = 0 =>
              GetRecommendations(u, call.top_n, call.strategy) = {result}

\* C18: get_recommendations completes for each of the four strategies and
\* returns a list whose entries carry the movie, its score and a reason,
\* also when a ready movie is among the recommendations.
C18_EveryStrategyCompletes ==
    ForYouCall =>
        /\ result.type = "recommendations"
        /\ \A i \in DOMAIN result.items :
              {"movie_id", "recommendation_score", "reason"} \subseteq DOMAIN result.items[i]

\* The movies of the user's watch records.
WatchedMovies(user_id) == {p[2] : p \in RowsOf(watch_history, user_id)}

\* C19: no list of movies recommended to a user, by the for-you endpoint
\* under any strategy or by either engine behind it on any of its paths,
\* holds a movie the user has a watch record for.
C19_NeverRecommendsWatched ==
    (call.op \in {"get_recommendations", "recommend_for_user", "recommend_based_on_history"}
     /\ result.type = "recommendations") =>
        \A i \in DOMAIN result.items :
            result.items[i].movie_id \notin WatchedMovies(call.user_id)

\* C20: under strategy auto a user without watch history is answered with
\* the popular movies, a user with fewer than 5 watched movies as under
\* strategy content, a user with 5 or more as under strategy hybrid.
C20_AutoColdStart ==
    (ForYouCall /\ call.strategy = "auto") =>
        /\ WatchedMovies(call.user_id) = {} =>
              /\ result.type = "recommendations"
              /\ \E popular \in GetPopularMovies(call.top_n) :
                    [i \in DOMAIN result.items |-> result.items[i].movie_id] = RecIds(popular)
        /\ (WatchedMovies(call.user_id) # {} /\ Cardinality(WatchedMovies(call.user_id)) < 5) =>
              result \in GetRecommendations(call.user_id, call.top_n, "content")
        /\ Cardinality(WatchedMovies(call.user_id)) >= 5 =>
              result \in GetRecommendations(call.user_id, call.top_n, "hybrid")

PairCall == call.op \in {"recommend_pair", "get_similar_users_pair"}

\* The two users have the same watch records with the same percentages and
\* the same explicit ratings.
SameHistory(a, b) ==
    \A table \in {watch_history, episode_watch_history, movie_ratings, series_ratings} :
        /\ {p[2] : p \in RowsOf(table, a)} = {p[2] : p \in RowsOf(table, b)}
        /\ \A p \in RowsOf(table, a) : table[p] = table[<<b, p[2]>>]

C17_DescendingThenKeyAscending ==
    call.op = "collab_recommend" =>
        \A i, j \in DOMAIN result.items : i < j =>
            \/ result.items[i].score > result.items[j].score
            \/ /\ result.items[i].score = result.items[j].score
               /\ KeyLess(result.items[i].key, result.items[j].key)

-----------------------------------------------------------------------------
(* Further properties of the play-next resolver                            *)

\* C28: an episode returned by next_for_episode is ready, is not the
\* finished episode, and is either the episode numbered n + 1 of the same
\* season or an episode of the season numbered s + 1 of the same series.
C28_ReturnedEpisodeIsReadySuccessor ==
    (EpisodeCall /\ result.type = "episode") =>
        /\ result.episode_id \in DOMAIN episodes
        /\ episodes[result.episode_id].status = "ready"
        /\ result.episode_id # call.episode_id
        /\ \/ /\ episodes[result.episode_id].season_id = episodes[call.episode_id].season_id
              /\ episodes[result.episode_id].episode_number
                    = episodes[call.episode_id].episode_number + 1
           \/ episodes[result.episode_id].season_id \in SuccessorSeasons

\* The finished episode has no ready successor in its season, the next
\* season holds a pending episode, and a ready episode of it was returned.
C28_Witness ==
    /\ EpisodeCall
    /\ result.type = "episode"
    /\ ReadySuccessors = {}
    /\ episodes[result.episode_id].season_id \in SuccessorSeasons
    /\ \E e \in DOMAIN episodes :
          /\ episodes[e].season_id = episodes[result.episode_id].season_id
          /\ episodes[e].status = "pending"

\* C30: next_for_movie never answers with the finished movie itself,
\* whether the movie comes from the Blender or from the content fallback.
C30_NextMovieIsAnotherMovie ==
    (call.op = "next_for_movie" /\ result.type = "movie") =>
        result.movie_id # call.movie_id

(* next_for_episode asked by users with different histories *)

\* Snapshots for next_for_episode with two profiles: series 1 with every
\* choice of seasons and episode statuses, series 2 complete; user 1 has
\* watched nothing or movie 1 and the whole of series 2, user 2 movie 2.
InitProfiles ==
    /\ \E g \in SUBSET (1..MaxSeasonNumber) :
         \E st \in [g \X (1..MaxEpisodeNumber) -> EpisodeStatus] :
            /\ seasons = SeasonsOf([s \in {1, 2} |-> IF s = 1 THEN g ELSE 1..MaxSeasonNumber])
            /\ episodes = EpisodesOf(
                 [x \in ({1} \X g \X (1..MaxEpisodeNumber)) \cup ({2} \X (1..MaxSeasonNumber) \X {1}) |->
                    IF x[1] = 1 THEN st[<<x[2], x[3]>>] ELSE "ready"])
    /\ \E blank \in BOOLEAN :
         /\ movies = [m \in MovieIds |->
                        [status |-> "ready",
                         genres |-> IF blank THEN {} ELSE {"g1"},
                         text |-> IF blank THEN {} ELSE {"w1"}]]
         /\ series = [s \in SeriesIds |->
                        [status |-> "active",
                         text |-> IF blank THEN {} ELSE OddEvenText(s)]]
    /\ \E seen \in BOOLEAN :
         /\ watch_history = [p \in (IF seen THEN {<<1, 1>>} ELSE {}) \cup {<<2, 2>>} |-> 95]
         /\ episode_watch_history =
              [p \in (IF seen THEN {1} \X {e \in DOMAIN episodes : EpToSeries[e] = 2} ELSE {}) |-> 95]
    /\ movie_ratings = NoRows
    /\ series_ratings = NoRows
    /\ Idle

NextProfiles == PlayNextAfterEpisode

SpecProfiles == InitProfiles /\ [][NextProfiles]_vars

\* What any user could be answered for the episode of the current request.
OutcomesFor(user_id) == NextForEpisode(call.episode_id, user_id)

SameOutcome(r) ==
    /\ r.type = result.type
    /\ (result.type = "episode" => r.episode_id = result.episode_id)

UserIndependent ==
    EpisodeCall => \A u \in Users : \A r \in OutcomesFor(u) : SameOutcome(r)

\* C25: on one snapshot, next_for_episode for the same finished episode has
\* the same outcome type for every user id and watch history, and the same
\* episode when the type is 'episode'; and the call changes no table.
C25_OutcomeIndependentOfUser ==
    [](UserIndependent) /\ [][UNCHANGED db]_vars

\* A request answered with a series recommendation while the other user
\* has another history, for which the Blender proposes other titles.
C25_Witness ==
    /\ EpisodeCall
    /\ result.type = "series_recommendation"
    /\ \E u \in Users \ {call.user_id} :
         /\ GetWatchedKeys(u) # GetWatchedKeys(call.user_id)
         /\ Recommend(u, MlSeriesTopN) # Recommend(call.user_id, MlSeriesTopN)

(* The neighbours of the collaborative engine *)

\* C27: for a user u of the matrix, the neighbours whose ratings predict
\* u's are the min(20, number of other users) users most similar to u and
\* never u: with fewer than 20 other users, all of them, a user with a row
\* identical to u's included.
C27_NeighborsAreTheOtherUsers ==
    (/\ call.op = "recommend_pair"
     /\ call.first \in Range(Matrix.index)
     /\ Cardinality(Range(Matrix.index)) - 1 <= NeighborCount) =>
        result.first.neighbors = Range(Matrix.index) \ {call.first}

(* Implicit ratings *)

\* Watch percentages on both sides of every threshold of _implicit_rating.
Percentages == {0, 24, 25, 49, 50, 74, 75, 89, 90, 100}

\* Snapshots for the implicit ratings: user 1 has a watch record for movie
\* 1 and for any of the episodes of series 1, each with any percentage;
\* user 2 has rated movie 2.
InitImplicit ==
    /\ OneSeasonEach
    /\ movies = [m \in MovieIds |-> [status |-> "ready", genres |-> {"g1"}, text |-> OddEvenText(m)]]
    /\ series = [x \in SeriesIds |-> [status |-> "active", text |-> OddEvenText(x)]]
    /\ \E pct \in Percentages : watch_history = [p \in {<<1, 1>>} |-> pct]
    /\ \E w \in SUBSET {e \in DOMAIN episodes : seasons[episodes[e].season_id].series_id = 1} :
          \E pct \in [w -> Percentages] :
             episode_watch_history = [p \in {1} \X w |-> pct[p[2]]]
    /\ movie_ratings = [p \in {<<2, 2>>} |-> 4]
    /\ series_ratings = NoRows
    /\ Idle

NextImplicit == Build

SpecImplicit == InitImplicit /\ [][NextImplicit]_vars

\* The rating of a mean watch percentage of total / count.
StepOf(total, count) ==
    IF total < 25 * count THEN 1
    ELSE IF total < 50 * count THEN 2
    ELSE IF total < 75 * count THEN 3
    ELSE IF total < 90 * count THEN 4
    ELSE 5

\* The episodes of a series the user has a watch record for.
WatchedEpisodesOf(u, series_id) ==
    {e \in DOMAIN episodes :
        /\ <<u, e>> \in DOMAIN episode_watch_history
        /\ seasons[episodes[e].season_id].series_id = series_id}

TotalPercentage(u, eps) == SumOver(eps, [e \in eps |-> episode_watch_history[<<u, e>>]])

ContentBuildCall ==
    /\ call' = [op |-> "content_build"]
    /\ result' = IF ContentBuild.raises THEN Raised
                 ELSE [type |-> "space", item_ids |-> ContentBuild.item_ids]
    /\ UNCHANGED db

\* UnifiedContentFilter.recommend_for_history on a fresh filter: build()
\* runs before watched_keys is looked at.
RecommendForHistoryOf(space, watched_keys, top_n) ==
    IF space.raises THEN Raised
    ELSE [type |-> "recommendations", items |-> RecommendForHistory(space, watched_keys, top_n)]

RecommendForHistoryCall ==
    \E watched_keys \in {<<>>, <<Key("movie", 1)>>}, top_n \in 1..MaxTopN :
        /\ call' = [op |-> "recommend_for_history", watched_keys |-> watched_keys, top_n |-> top_n]
        /\ result' = RecommendForHistoryOf(ContentBuild, watched_keys, top_n)
        /\ UNCHANGED db

\* Snapshots where any of the ready movies and active series has no
\* description, director, cast or genre; nobody has watched or rated
\* anything.
InitDegenerate ==
    /\ OneSeasonEach
    /\ \E ready \in SUBSET {2}, worded \in SUBSET MovieIds :
         movies = [m \in MovieIds |->
                     [status |-> IF m = 1 \/ m \in ready THEN "ready" ELSE "pending",
                      genres |-> {},
                      text |-> IF m \in worded THEN OddEvenText(m) ELSE {}]]
    /\ \E worded \in SUBSET SeriesIds :
         series = [x \in SeriesIds |->
                     [status |-> "active", text |-> IF x \in worded THEN {"w1"} ELSE {}]]
    /\ watch_history = NoRows
    /\ movie_ratings = NoRows
    /\ episode_watch_history = NoRows
    /\ series_ratings = NoRows
    /\ Idle

NextDegenerate ==
    \/ ContentBuildCall
    \/ SimilarItems
    \/ RecommendForHistoryCall
    \/ UnifiedRecommendations

SpecDegenerate == InitDegenerate /\ [][NextDegenerate]_vars

\* C23: on every catalogue, one without any term and one with all-zero
\* vectors included, building the feature space, get_similar,
\* recommend_for_history and recommend for a user without watch history
\* return a result, possibly empty, and never an error.
C23_DegenerateInputsReturn ==
    (/\ call.op \in {"content_build", "get_similar", "recommend_for_history", "recommend_unified"}
     /\ (call.op = "recommend_unified" => GetWatchedKeys(call.user_id) = <<>>)) =>
        result.type # "error"

(* Candidates that left the serving status *)

\* The proposed keys whose catalog row no longer has the serving status.
StaleProposed ==
    {k \in Proposed :
        \/ IsMovieKey(k) /\ movies[KeyId(k)].status # "ready"
        \/ IsSeriesKey(k) /\ series[KeyId(k)].status # "active"}

\* C26: every entry recommend_unified returns is a movie with status
\* 'ready' or a series with status 'active'; a proposed candidate with
\* another status is left out and the request still returns its two lists.
C26_OnlyServableEntries ==
    call.op = "recommend_unified" =>
        /\ result.type = "unified"
        /\ \A i \in DOMAIN result.movies : movies[result.movies[i].movie_id].status = "ready"
        /\ \A i \in DOMAIN result.series : series[result.series[i].series_id].status = "active"

\* A request for which a pending movie and an inactive series were proposed
\* and which returns a movie all the same.
C26_Witness ==
    /\ UnifiedCall
    /\ \E k \in StaleProposed : IsMovieKey(k)
    /\ \E k \in StaleProposed : IsSeriesKey(k)
    /\ result.movies # <<>>

-----------------------------------------------------------------------------
(* The similar-to endpoint while the catalogue is being updated *)

\* A request of similar_content between its statements.
InFlight == call.op = "similar_content" /\ result.type = "in_progress"

\* The entry of a similar item as similar_content builds it.
SimilarEntry(r) == [type |-> r.key[1], id |-> KeyId(r.key), score |-> r.score]

\* The re-validation query of one similar item: the movie with that id and
\* status 'ready'; for a series the row with that id, whatever its status.
Revalidated(r) ==
    IF IsMovieKey(r.key)
    THEN KeyId(r.key) \in DOMAIN movies /\ movies[KeyId(r.key)].status = "ready"
    ELSE KeyId(r.key) \in DOMAIN series

\* similar_content up to the loop: the check of content_type, cf.build()
\* and cf.get_similar(item_key, limit * 2).
SimilarContentStartOn(space, content_type, content_id, limit) ==
    \E similar \in (IF space.raises THEN {<<>>}
                    ELSE GetSimilar(space, Key(content_type, content_id), limit * 2)) :
        /\ call' = [op |-> "similar_content", content_type |-> content_type,
                    content_id |-> content_id, limit |-> limit,
                    similar |-> similar, pos |-> 1]
        /\ result' = IF space.raises THEN Raised
                     ELSE IF similar = <<>> THEN [type |-> "similar_content", items |-> <<>>]
                     ELSE [type |-> "in_progress", items |-> <<>>]
        /\ UNCHANGED db

SimilarContentStart ==
    /\ ~InFlight
    /\ \E content_type \in {"movie", "series"}, content_id \in 1..NumSeries, limit \in 1..MaxTopN :
          SimilarContentStartOn(ContentBuild, content_type, content_id, limit)

\* content_type other than "movie" and "series": HTTP 400.
SimilarContentBadType ==
    /\ ~InFlight
    /\ call' = [op |-> "similar_content", content_type |-> "episode", content_id |-> 1,
                limit |-> 1, similar |-> <<>>, pos |-> 1]
    /\ result' = [type |-> "error", reason |-> "HTTPException 400"]
    /\ UNCHANGED db

\* One turn of the loop over similar[:limit * 2]: the query for the item,
\* the append when it returns a row, the break at limit results and the
\* return when the loop ends.
SimilarContentTurn(items) ==
    /\ call' = [call EXCEPT !.pos = @ + 1]
    /\ result' = [type |-> IF Len(items) >= call.limit \/ call.pos = Len(call.similar)
                           THEN "similar_content" ELSE "in_progress",
                  items |-> items]
    /\ UNCHANGED db

SimilarContentLoop ==
    /\ InFlight
    /\ SimilarContentTurn(IF Revalidated(call.similar[call.pos])
                          THEN Append(result.items, SimilarEntry(call.similar[call.pos]))
                          ELSE result.items)

\* MovieService.update_movie with a status, committed while a request of
\* similar_content is between two statements.
UpdateMovieStatus ==
    /\ InFlight
    /\ \E m \in DOMAIN movies, st \in {"ready", "pending"} :
          /\ movies[m].status # st
          /\ movies' = [movies EXCEPT ![m].status = st]
    /\ UNCHANGED <<series, seasons, episodes, watch_history, movie_ratings,
                   episode_watch_history, series_ratings, call, result>>

\* SeriesService.update_series with a status, likewise.
UpdateSeriesStatus ==
    /\ InFlight
    /\ \E x \in DOMAIN series, st \in {"active", "inactive"} :
          /\ series[x].status # st
          /\ series' = [series EXCEPT ![x].status = st]
    /\ UNCHANGED <<movies, seasons, episodes, watch_history, movie_ratings,
                   episode_watch_history, series_ratings, call, result>>

InitSimilar ==
    /\ OneSeasonEach
    /\ movies = [m \in MovieIds |-> [status |-> "ready", genres |-> {}, text |-> OddEvenText(m)]]
    /\ series = [x \in SeriesIds |-> [status |-> "active", text |-> OddEvenText(x)]]
    /\ watch_history = NoRows
    /\ movie_ratings = NoRows
    /\ episode_watch_history = NoRows
    /\ series_ratings = NoRows
    /\ Idle

NextSimilar ==
    \/ SimilarContentStart
    \/ SimilarContentBadType
    \/ SimilarContentLoop
    \/ UpdateMovieStatus
    \/ UpdateSeriesStatus

SpecSimilar == InitSimilar /\ [][NextSimilar]_vars

\* The catalog row of an entry has the serving status.
ServingStatus(e) ==
    IF e.type = "movie" THEN movies[e.id].status = "ready"
    ELSE series[e.id].status = "active"

\* C21: an entry is added to the results of similar_content only if, at the
\* re-validation query that adds it, its movie is 'ready' or its series
\* 'active': an item whose status changed after the vector space was built
\* is dropped, movie or series.
C21_SurfacedOnlyWhenServing ==
    [][(/\ call'.op = "similar_content"
        /\ result'.type \in {"in_progress", "similar_content"}
        /\ InFlight
        /\ Len(result'.items) > Len(result.items)) =>
           ServingStatus(result'.items[Len(result'.items)])]_vars

-----------------------------------------------------------------------------
(* Concurrent progress reports of episodes *)

\* The requests of update_progress in flight at once, each in a session
\* (transaction) of its own.
NumWorkers == 2

Workers == 1..NumWorkers

ProgressPercentages == {30, 95}

\* The ids a progress report may name: two episodes and one that no row has.
ReportedEpisodes == {0, 1, 2}

Pending == [type |-> "pending"]

IntegrityError == [type |-> "error", reason |-> "IntegrityError"]

NotFound == [type |-> "error", reason |-> "HTTPException 404"]

\* A client posts a progress report.
ReceiveProgress(w) ==
    /\ call.calls[w].pc = "idle"
    /\ \E user_id \in Users, episode_id \in ReportedEpisodes, pct \in ProgressPercentages :
          call' = [call EXCEPT !.calls[w] =
                     [pc |-> "received", user_id |-> user_id, episode_id |-> episode_id,
                      watch_percentage |-> pct, view_count |-> 0, record |-> FALSE]]
    /\ UNCHANGED <<db, result>>

\* episode = db.query(Episode).filter(Episode.id == episode_id).first():
\* 404 without a row, otherwise the row with its view_count as loaded.
QueryEpisode(w) ==
    /\ call.calls[w].pc = "received"
    /\ IF call.calls[w].episode_id \notin DOMAIN episodes
       THEN /\ call' = [call EXCEPT !.calls[w].pc = "done"]
            /\ result' = [result EXCEPT !.of[w] = NotFound]
       ELSE /\ call' = [call EXCEPT !.calls[w].pc = "episode",
                                    !.calls[w].view_count = episodes[call.calls[w].episode_id].view_count]
            /\ UNCHANGED result
    /\ UNCHANGED db

\* record = db.query(EpisodeWatchHistory).filter(user_id, episode_id).first()
QueryRecord(w) ==
    /\ call.calls[w].pc = "episode"
    /\ call' = [call EXCEPT !.calls[w].pc = "record",
                            !.calls[w].record =
                                <<call.calls[w].user_id, call.calls[w].episode_id>>
                                    \in DOMAIN episode_watch_history]
    /\ UNCHANGED <<db, result>>

\* The branch taken on the record and db.commit(): the UPDATE of a record
\* found; otherwise the INSERT, refused by unique_user_episode_watch when
\* the pair has a row by now (the transaction is rolled back), together
\* with the UPDATE of the episode's view_count to the loaded value plus one.
CommitProgress(w) ==
    LET c == call.calls[w]
        pair == <<c.user_id, c.episode_id>>
    IN /\ c.pc = "record"
       /\ call' = [call EXCEPT !.calls[w].pc = "done"]
       /\ IF c.record
          THEN /\ episode_watch_history' = [episode_watch_history EXCEPT ![pair] = c.watch_percentage]
               /\ result' = [result EXCEPT !.of[w] = [type |-> "record", watch_percentage |-> c.watch_percentage]]
               /\ UNCHANGED episodes
          ELSE IF pair \in DOMAIN episode_watch_history
          THEN /\ result' = [result EXCEPT !.of[w] = IntegrityError]
               /\ UNCHANGED <<episode_watch_history, episodes>>
          ELSE /\ episode_watch_history' = (pair :> c.watch_percentage) @@ episode_watch_history
               /\ episodes' = [episodes EXCEPT ![c.episode_id].view_count = c.view_count + 1]
               /\ result' = [result EXCEPT !.of[w] = [type |-> "record", watch_percentage |-> c.watch_percentage]]
       /\ UNCHANGED <<movies, series, seasons, watch_history, movie_ratings, series_ratings>>

\* One episode per season of series 1 with its view_count; user 1 has or
\* has not yet a record for episode 1.
InitProgress ==
    /\ movies = [m \in MovieIds |-> [status |-> "ready", genres |-> {}, text |-> {"w1"}]]
    /\ series = [x \in SeriesIds |-> [status |-> "active", text |-> {"w1"}]]
    /\ seasons = [i \in {1} |-> [series_id |-> 1, season_number |-> 1]]
    /\ \E seen \in BOOLEAN :
         /\ episodes = [e \in {1, 2} |->
                          [season_id |-> 1, episode_number |-> e, status |-> "ready",
                           view_count |-> IF seen /\ e = 1 THEN 1 ELSE 0]]
         /\ episode_watch_history = [p \in (IF seen THEN {<<1, 1>>} ELSE {}) |-> 30]
    /\ watch_history = NoRows
    /\ movie_ratings = NoRows
    /\ series_ratings = NoRows
    /\ call = [op |-> "update_progress", calls |-> [w \in Workers |-> [pc |-> "idle"]]]
    /\ result = [type |-> "progress", of |-> [w \in Workers |-> Pending]]

NextProgress ==
    \E w \in Workers :
        \/ ReceiveProgress(w)
        \/ QueryEpisode(w)
        \/ QueryRecord(w)
        \/ CommitProgress(w)

SpecProgress == InitProgress /\ [][NextProgress]_vars

\* Every request is answered and all were for one (user, episode) pair of
\* an existing episode.
SamePairDone ==
    /\ call.op = "update_progress"
    /\ \A w \in Workers : call.calls[w].pc = "done"
    /\ \A w \in Workers :
          /\ call.calls[w].user_id = call.calls[1].user_id
          /\ call.calls[w].episode_id = call.calls[1].episode_id
    /\ call.calls[1].episode_id \in DOMAIN episodes

\* C29: after concurrent update_progress calls for one (user, episode) pair,
\* however their statements interleave, every call has returned its record
\* and none an error, the pair has one watch record, and the episode's
\* view_count has counted the pair once.
C29_ConcurrentReportsAllSucceed ==
    SamePairDone =>
        /\ \A w \in Workers : result.of[w].type = "record"
        /\ <<call.calls[1].user_id, call.calls[1].episode_id>> \in DOMAIN episode_watch_history
        /\ episodes[call.calls[1].episode_id].view_count =
              Cardinality({p \in DOMAIN episode_watch_history : p[2] = call.calls[1].episode_id})

-----------------------------------------------------------------------------
(* The refresh endpoint *)

\* The answer of refresh_recommendation_engine for the two structures it
\* builds: the ValueError of fit_transform, or the message with the sizes
\* of the watch matrix.
RefreshResult(M, space) ==
    IF space.raises THEN Raised
    ELSE [type |-> "refreshed",
          users |-> IF M.empty THEN 0 ELSE Len(M.index),
          movies |-> IF M.empty THEN 0 ELSE Len(M.columns)]

\* The endpoint writing the rebuilt ratings back, every watch record
\* counted as watched to the end.
RefreshStoringRatings ==
    /\ call' = [op |-> "refresh"]
    /\ result' = RefreshResult(BuildUserItemMatrix, BuildFeatureMatrix)
    /\ watch_history' = [p \in DOMAIN watch_history |-> 100]
    /\ UNCHANGED <<movies, series, seasons, episodes, movie_ratings,
                   episode_watch_history, series_ratings>>

\* POST /recommendations/refresh: both filters are built on local objects
\* and dropped; no table is written.
Refresh ==
    /\ call' = [op |-> "refresh"]
    /\ result' = RefreshResult(BuildUserItemMatrix, BuildFeatureMatrix)
    /\ UNCHANGED db

NextRefresh ==
    \/ Refresh
    \/ GetPersonalizedRecommendations

SpecRefresh == InitForYou /\ [][NextRefresh]_vars

\* C22: a refresh changes no table, the watch matrix and the feature matrix
\* a request builds after it are those it would have built before it (so
\* every request is answered the same after zero, one or two refreshes),
\* and a second refresh on the same data answers as the first.
C22_RefreshChangesNothing ==
    [][call'.op = "refresh" =>
          /\ UNCHANGED db
          /\ BuildUserItemMatrix' = BuildUserItemMatrix
          /\ BuildFeatureMatrix' = BuildFeatureMatrix
          /\ (call.op = "refresh" => result' = result)]_vars

\* A refresh that built a matrix with users and movies in it, on tables
\* for which a request is answered from that matrix.
C22_Witness ==
    /\ call.op = "refresh"
    /\ result.type = "refreshed"
    /\ result.users > 1
    /\ result.movies > 1
    /\ \E u \in Users : GetSimilarUsers(BuildUserItemMatrix, u, SimilarUsersTopK) # {<<>>}

=============================================================================
